---- MODULE Spec2Model ----
(***************************************************************************)
(* A model of datafusion-fuzzer: the fuzzing run loop (cli/runner.rs), the *)
(* per-run context (fuzz_context/mod.rs), the SELECT statement builder     *)
(* (query_generator/stmt_select_def.rs), the no-crash oracle               *)
(* (oracle/oracle_impl_no_crash.rs) and the error whitelist                *)
(* (cli/error_whitelist.rs).                                               *)
(*                                                                         *)
(* Random draws of the seeded generators are existential choices over the  *)
(* drawn range in Spec; SpecDet takes two runs with one seed together and  *)
(* gives both the same draws.  The query engine is an external             *)
(* collaborator: what it answers (success, error, timeout) is a choice of  *)
(* the environment.                                                        *)
(***************************************************************************)
EXTENDS Integers, Sequences, FiniteSets, TLC

VARIABLES
    \* ---- GlobalContext (fuzz_context/mod.rs) ----
    runner_config,        \* RunnerConfig: rounds, queries_per_round, max_table_count
    current_table_idx,    \* RuntimeContext.current_table_idx (AtomicU32)
    registered_tables,    \* RuntimeContext.registered_tables: the names that are keys of the map
    df_ctx,               \* RuntimeContext.df_ctx: the engine session, [id, tables]
    fuzzer_stats,         \* FuzzerStats counters
    \* ---- run_fuzzer and the functions it awaits (cli/runner.rs) ----
    pc,                   \* position of the driving task
    round,                \* loop variable of run_fuzzer
    tables_per_round,     \* generate_datasets_for_round: number of tables drawn
    table_i,              \* generate_datasets_for_round: loop variable
    available_tables,     \* generate_views_for_round: snapshot of the registry values
    num_views,            \* generate_views_for_round: number of views drawn
    view_i,               \* generate_views_for_round: loop variable
    stmt_builder,         \* generate_views_for_round: the one SelectStatementBuilder of the round
    query_i,              \* run_fuzzer: loop variable of the oracle tests
    query_group,          \* execute_oracle_test: the generated query group
    execution_results,    \* execute_oracle_test: results collected so far
    run_result,           \* value returned by run_fuzzer ("running" before it returns)
    \* ---- observations of the run, read by the properties only ----
    exec_log,             \* per executed query of the group: timed out, how it was classified
    engine_calls,         \* per query of the current group: how often the engine ran it
    last_stmt,            \* what the generate_stmt call of the last step returned
    last_test,            \* what the execute_oracle_test that ended in the last step did
    attempted,            \* per round: tables, views and oracle tests attempted
    round_registered,     \* names registered since the round began
    resets,               \* reset_datafusion_context calls so far
    \* ---- a client of the name counter (next_table_name, reset_table_counter) ----
    names_since_reset,    \* the names handed out since the last reset, in order
    handed_before_reset,  \* how many names were handed out before the last reset
    was_reset,            \* has reset_table_counter been called
    \* ---- a call of is_error_whitelisted ----
    arg_error_msg,        \* the argument
    whitelisted,          \* the returned value, None before the call returns
    \* ---- two runs of run_fuzzer with one seed, each on a fresh context ----
    det_pc,               \* position of both runs
    det_round,            \* loop variable of run_fuzzer
    det_i,                \* loop variable of the current phase
    det_n,                \* the drawn tables_per_round or num_views
    det_run,              \* per run: counter, registry, session, builder, group, last output
    det_env_differed,     \* did map order or timing differ between the runs so far
    \* ---- a call of a library function on its own ----
    unit_call,            \* the function called and its arguments
    unit_ret,             \* the returned value, None before the call returns
    \* ---- ExprGenerator (query_generator/expr_gen.rs) ----
    expr_gen,             \* the generator: max_level, the types src_columns has columns of
    expr_stack,           \* the active generate_random_expr calls that build an operator node
    expr_last,            \* what the generate_random_expr call that returned in the last step did
    \* ---- tasks and locks ----
    task,                 \* an async operation of the driving task: position, guards held, suspended
    tui                   \* the live-display task (cli/tui.rs): position, exit flag, stats drawn

ctx_vars == <<current_table_idx, registered_tables, df_ctx>>

datasets_vars == <<tables_per_round, table_i>>

views_vars == <<available_tables, num_views, view_i, stmt_builder>>

test_vars == <<query_group, execution_results, exec_log, engine_calls>>

run_vars == <<runner_config, ctx_vars, fuzzer_stats, pc, round, datasets_vars, views_vars,
              query_i, test_vars, run_result, last_stmt, last_test, attempted,
              round_registered, resets>>

counter_vars == <<names_since_reset, handed_before_reset, was_reset>>

whitelist_vars == <<arg_error_msg, whitelisted>>

det_vars == <<det_pc, det_round, det_i, det_n, det_run, det_env_differed>>

unit_vars == <<unit_call, unit_ret>>

expr_vars == <<expr_gen, expr_stack, expr_last>>

task_vars == <<task, tui>>

lib_vars == <<unit_vars, expr_vars, task_vars>>

aux_vars == <<counter_vars, whitelist_vars, det_vars, lib_vars>>

vars == <<run_vars, aux_vars>>

----------------------------------------------------------------------------
(* Bounds of the model *)

MaxRounds == 2            \* runner_config.rounds ranges over 0..MaxRounds
MaxQueries == 2           \* runner_config.queries_per_round ranges over 1..MaxQueries
MaxTests == 2             \* rounds * queries_per_round of a configuration is at most this
MaxTableCountCfg == 2     \* runner_config.max_table_count ranges over 1..MaxTableCountCfg
TablesCap == 3            \* cap on the tables_per_round draw (code: up to 10)
ViewsCap == 2             \* cap on the num_views draw (code: up to 3)
HashOrders == 2           \* iteration orders of the registry map that are taken
MaxNames == 12            \* names a client of the counter asks for
MaxMsgLen == 4            \* symbols of an error message

(* Constants of the program *)

MinTablesPerRound == 3    \* runner.rs:72  random_range(3..=10)
MaxTablesPerRound == 10   \* runner.rs:72
MaxViewsPerRound == 3     \* runner.rs:111 min(3, available_tables.len())
ViewMaxTableCount == 3    \* runner.rs:119 with_max_table_count(3)

----------------------------------------------------------------------------
(* Helpers *)

Min(a, b) == IF a < b THEN a ELSE b

Range(s) == {s[i] : i \in 1..Len(s)}

\* Option<T>: None is the empty sequence, Some(x) the sequence of x alone
None == <<>>

Some(x) == <<x>>

IsSome(opt) == opt # <<>>

Unwrap(opt) == opt[1]

----------------------------------------------------------------------------
(* Table and view names.  next_table_name formats "t{idx}", views are      *)
(* named "v{i}"; a name is kept as its prefix and its number.              *)

TableName(idx) == [kind |-> "t", idx |-> idx]

ViewName(i) == [kind |-> "v", idx |-> i]

RECURSIVE Digits(_)
Digits(n) == IF n < 10 THEN <<n>> ELSE Append(Digits(n \div 10), n % 10)

RECURSIVE LexLess(_, _)
LexLess(a, b) ==
    IF a = <<>> THEN b # <<>>
    ELSE IF b = <<>> THEN FALSE
    ELSE IF Head(a) # Head(b) THEN Head(a) < Head(b)
    ELSE LexLess(Tail(a), Tail(b))

\* String order of two names (a.name.cmp(&b.name)): "t" sorts before "v",
\* then the decimal digits compare left to right.
NameLess(a, b) ==
    IF a.kind # b.kind THEN a.kind = "t"
    ELSE LexLess(Digits(a.idx), Digits(b.idx))

RECURSIVE SortSet(_)
SortSet(S) ==
    IF S = {} THEN <<>>
    ELSE LET m == CHOOSE x \in S : \A y \in S \ {x} : NameLess(x, y)
         IN <<m>> \o SortSet(S \ {m})

----------------------------------------------------------------------------
(* Error whitelist (cli/error_whitelist.rs).  A message is a sequence of   *)
(* symbols; each symbol stands for a fixed piece of text, so that the      *)
(* shipped patterns are the concatenation of their symbols.                *)

AnyPlus == "(.+)"         \* the regex group (.+): one or more characters other than newline
Newline == "\n"
BadRegex == "("           \* an unclosed group: Regex::new rejects a source that holds it

Contains(str) == [type |-> "Contains", str |-> str]

RegexMatch(str) == [type |-> "RegexMatch", str |-> str]

ERROR_PATTERNS ==
    << Contains(<<"Arrow error: Divide by zero", " error">>),
       RegexMatch(<<"Error during planning: Cannot coerce arithmetic expression ",
                    AnyPlus, " to valid types">>),
       RegexMatch(<<"Query execution failed: Arrow error: Cast error: value of ",
                    AnyPlus, " is out of range UINT", AnyPlus>>),
       Contains(<<"Projections require unique expression names">>) >>

\* Regex::new(regex_str): Ok(regex) or Err
RegexNew(regex_str) ==
    IF BadRegex \in Range(regex_str)
    THEN [ok |-> FALSE, regex |-> <<>>]
    ELSE [ok |-> TRUE, regex |-> regex_str]

\* a cache that keeps the source of every RegexMatch pattern, compiled or not
CompileAll_KeepSource(patterns) ==
    [i \in 1..Len(patterns) |->
        IF patterns[i].type = "Contains" THEN None ELSE Some(patterns[i].str)]

\* the cache built from a pattern list: None for Contains and for a regex that
\* does not compile, Some(regex) otherwise
CompileAll(patterns) ==
    [i \in 1..Len(patterns) |->
        IF patterns[i].type = "Contains" THEN None
        ELSE IF RegexNew(patterns[i].str).ok THEN Some(RegexNew(patterns[i].str).regex)
        ELSE None]

COMPILED_REGEXES == CompileAll(ERROR_PATTERNS)

\* str::contains: the pattern occurs in the message as a contiguous run
StrContains(msg, str) ==
    \E i \in 1..(Len(msg) + 1) :
        /\ i + Len(str) - 1 <= Len(msg)
        /\ \A k \in 1..Len(str) : msg[i + k - 1] = str[k]

\* the regex, from part p on, matches the message from position j on
RECURSIVE MatchHere(_, _, _, _)
MatchHere(regex, p, msg, j) ==
    IF p > Len(regex) THEN TRUE
    ELSE IF regex[p] = AnyPlus
    THEN \E k \in j..Len(msg) :
            /\ \A x \in j..k : msg[x] # Newline
            /\ MatchHere(regex, p + 1, msg, k + 1)
    ELSE /\ j <= Len(msg)
         /\ msg[j] = regex[p]
         /\ MatchHere(regex, p + 1, msg, j + 1)

\* Regex::is_match: an unanchored search
RegexIsMatch(regex, msg) == \E j \in 1..(Len(msg) + 1) : MatchHere(regex, 1, msg, j)

MatchesPatternFullMessage(pattern, compiled, error_msg) ==
    IF pattern.type = "Contains"
    THEN error_msg = pattern.str
    ELSE IsSome(compiled) /\ RegexIsMatch(Unwrap(compiled), error_msg)

\* one arm of the match in is_error_whitelisted: does pattern i return true
MatchesPattern(pattern, compiled, error_msg) ==
    IF pattern.type = "Contains"
    THEN StrContains(error_msg, pattern.str)
    ELSE IsSome(compiled) /\ RegexIsMatch(Unwrap(compiled), error_msg)

\* the loop of is_error_whitelisted from index i on (1-based here)
RECURSIVE WhitelistedFrom(_, _, _, _)
WhitelistedFrom(patterns, compiled, error_msg, i) ==
    IF i > Len(patterns) THEN FALSE
    ELSE IF MatchesPattern(patterns[i],
                           IF i <= Len(compiled) THEN compiled[i] ELSE None,
                           error_msg)
    THEN TRUE
    ELSE WhitelistedFrom(patterns, compiled, error_msg, i + 1)

is_error_whitelisted(error_msg) ==
    WhitelistedFrom(ERROR_PATTERNS, COMPILED_REGEXES, error_msg, 1)

----------------------------------------------------------------------------
(* SelectStatementBuilder (query_generator/stmt_select_def.rs) *)

SelectStatementBuilder_new ==
    [max_table_count |-> None, allow_derived_tables |-> FALSE, src_tables |-> <<>>]

with_max_table_count(builder, n) == [builder EXCEPT !.max_table_count = Some(n)]

with_allow_derived_tables(builder, allow) == [builder EXCEPT !.allow_derived_tables = allow]

Rotate(seq, k) == [i \in 1..Len(seq) |-> seq[((i + k - 1) % Len(seq)) + 1]]

\* tables_lock.values().cloned().collect(): the values of the registry map in
\* the iteration order of the map.  The order is arbitrary; the model takes
\* HashOrders of them, the rotations of the sorted order.
RegistryValues(tables) ==
    IF tables = {} THEN { <<>> }
    ELSE { Rotate(SortSet(tables), k) : k \in 0..(HashOrders - 1) }

\* self.max_table_count.unwrap_or(self.ctx.runner_config.max_table_count)
cfg_max_table_count(builder, config) ==
    IF IsSome(builder.max_table_count)
    THEN Unwrap(builder.max_table_count)
    ELSE config.max_table_count

\* the index samples choose_multiple can draw: amount distinct positions of a
\* slice of the given length.  They are listed in increasing order; no
\* property here reads the order of a sample.
RECURSIVE IndexSamples(_, _)
IndexSamples(length, amount) ==
    IF amount = 0 THEN { <<>> }
    ELSE IF length < amount THEN {}
    ELSE IndexSamples(length - 1, amount)
         \cup { Append(smp, length) : smp \in IndexSamples(length - 1, amount - 1) }

\* slice.choose_multiple(rng, amount), with the positions the rng drew
choose_multiple(slice, sample) == [k \in 1..Len(sample) |-> slice[sample[k]]]

\* the draws of one pick_src_tables call on a registry of the given size:
\* random_range(1..=cfg_max_table_count), then the sample of choose_multiple
Draws(cfg_max, size) ==
    UNION { { [num_src_tables |-> n, sample |-> smp] :
                smp \in IndexSamples(size, Min(n, size)) } : n \in 1..cfg_max }

SortByName_HashOrder(tables) == tables

\* available_tables.sort_by(|a, b| a.name.cmp(&b.name)); names are map keys, so unique
SortByName(tables) == SortSet(Range(tables))

\* pick_src_tables on the registry values as the map iterates them, with the
\* draws of the builder's rng
pick_src_tables(builder, values, draw) ==
    LET available_tables_0 == SortByName(values)
    IN  IF available_tables_0 = <<>>
        THEN [ok |-> FALSE, builder |-> builder]
        ELSE LET selected_tables == choose_multiple(available_tables_0, draw.sample)
             IN  [ok |-> TRUE,
                  builder |-> [builder EXCEPT !.src_tables = @ \o selected_tables]]

\* generate_stmt: pick_src_tables, then the statement over self.src_tables.
\* The SELECT list and the WHERE clause are drawn from the builder's rng over
\* the columns of src_tables; the statement is kept as its FROM list.
generate_stmt(builder, values, draw) ==
    LET picked == pick_src_tables(builder, values, draw)
    IN  IF ~picked.ok
        THEN [ok |-> FALSE, from_list |-> <<>>, builder |-> picked.builder]
        ELSE [ok |-> TRUE, from_list |-> picked.builder.src_tables,
              builder |-> picked.builder]

\* SelectStatement::to_sql_string: the unparser of the engine renders every
\* expression of the statement, or fails on one of them
to_sql_string(stmt, unparse_ok) ==
    IF unparse_ok THEN [ok |-> TRUE, sql |-> [from_list |-> stmt.from_list]]
    ELSE [ok |-> FALSE, sql |-> [from_list |-> <<>>]]

----------------------------------------------------------------------------
(* RuntimeContext and GlobalContext (fuzz_context/mod.rs) *)

\* next_table_name: fetch_add(1) on the AtomicU32, formatted as "t{old}".  The
\* counter wraps at 2^32, which no run of the model comes near.
next_table_name(idx) == [name |-> TableName(idx), idx |-> idx + 1]

reset_table_counter_KeepValue(idx) == idx

\* reset_table_counter: store(0)
reset_table_counter(idx) == 0

\* default_df_session_context: a new, empty engine session
default_df_session_context(id) == [id |-> id, tables |-> {}]

----------------------------------------------------------------------------
(* Oracle (oracle/oracle_trait.rs, oracle/oracle_impl_no_crash.rs) *)

NoCrashDescription == "Random Query No-Crash Test"

\* QueryContext::new
QueryContext_new(query, context) ==
    [query |-> query, context |-> context, context_description |-> None]

QueryContext_with_description(query, context, description) ==
    [query |-> query, context |-> context, context_description |-> Some(description)]

\* QueryContext::display_description
display_description(query_context) ==
    IF IsSome(query_context.context_description)
    THEN <<"Query with ", Unwrap(query_context.context_description), ": ",
           query_context.query>>
    ELSE <<"Query: ", query_context.query>>

\* NoCrashOracle::generate_query_group, with the draws of its builder
NoCrashOracle_generate_query_group(values, config, session, draw, unparse_ok) ==
    LET stmt_builder_0 == with_allow_derived_tables(SelectStatementBuilder_new, FALSE)
        stmt == generate_stmt(stmt_builder_0, values, draw)
        sql == to_sql_string(stmt, unparse_ok)
    IN  [ok |-> stmt.ok /\ sql.ok,
         stmt |-> stmt,
         group |-> IF stmt.ok /\ sql.ok
                   THEN << QueryContext_with_description(
                              sql.sql, session, NoCrashDescription) >>
                   ELSE <<>>]

\* the max_table_count the builder of the oracle works with: it sets no override
NoCrashOracle_max_table_count(config) ==
    cfg_max_table_count(with_allow_derived_tables(SelectStatementBuilder_new, FALSE), config)

validate_consistency_FailOnError(results) ==
    IF results = <<>> \/ \E i \in 1..Len(results) : ~results[i].result.ok
    THEN "Err"
    ELSE "Ok"

\* NoCrashOracle::validate_consistency
validate_consistency(results) == IF results = <<>> THEN "Err" ELSE "Ok"

\* the report taken from the last result of the list
create_error_report_LastResult(results) ==
    LET last == Len(results)
    IN  [header |-> "No-Crash Oracle Test Failed",
         query |-> IF results # <<>> THEN Some(results[last].query_context.query) ELSE None,
         context |-> IF results # <<>>
                     THEN Some(display_description(results[last].query_context)) ELSE None,
         error_details |-> IF results # <<>> /\ ~results[last].result.ok
                           THEN Some(results[last].result.msg) ELSE None]

\* NoCrashOracle::create_error_report: the sections the report holds
create_error_report(results) ==
    [header |-> "No-Crash Oracle Test Failed",
     query |-> IF results # <<>> THEN Some(results[1].query_context.query) ELSE None,
     context |-> IF results # <<>>
                 THEN Some(display_description(results[1].query_context)) ELSE None,
     error_details |-> IF results # <<>> /\ ~results[1].result.ok
                       THEN Some(results[1].result.msg) ELSE None]

----------------------------------------------------------------------------
(* Query execution (cli/runner.rs) *)

\* error texts of the engine that the model lets a query fail with
EngineErrors ==
    { <<"Arrow error: Divide by zero", " error">>,
      <<"Internal error: unexpected state">> }

TimeoutMessage == <<"Query execution timed out">>

\* what the engine answers when the timer does not fire first: the batches, a
\* planning error or an execution error (the map_err prefixes of the closure)
EngineResults ==
    { [ok |-> TRUE, msg |-> <<>>] }
    \cup { [ok |-> FALSE, msg |-> <<"Query planning failed: ">> \o e] : e \in EngineErrors }
    \cup { [ok |-> FALSE, msg |-> <<"Query execution failed: ">> \o e] : e \in EngineErrors }

\* what tokio::time::timeout returns: Ok(result) of the engine, or Err(Elapsed)
TimeoutResults ==
    { [elapsed |-> FALSE, result |-> r] : r \in EngineResults }
    \cup { [elapsed |-> TRUE, result |-> [ok |-> FALSE, msg |-> <<>>]] }

execute_query_with_timeout_OkOnElapsed(timeout_result) ==
    [result |-> IF timeout_result.elapsed THEN [ok |-> TRUE, msg |-> <<>>]
                ELSE timeout_result.result,
     timed_out |-> FALSE]

\* execute_query_with_timeout: the match on the timeout's result
execute_query_with_timeout(timeout_result) ==
    IF ~timeout_result.elapsed
    THEN [result |-> timeout_result.result, timed_out |-> FALSE]
    ELSE [result |-> [ok |-> FALSE, msg |-> TimeoutMessage], timed_out |-> TRUE]

\* does execution_time reach 90% of the timeout (FuzzerStats counts the query
\* as slow then): always when the timer elapsed, either way otherwise
SlowValues(timeout_result) == IF timeout_result.elapsed THEN {TRUE} ELSE BOOLEAN

record_query_with_time_CountsSuccess(stats, success, slow) ==
    [stats EXCEPT !.queries_executed = @ + 1,
                  !.queries_succeeded = @ + 1,
                  !.queries_slow = @ + (IF slow THEN 1 ELSE 0)]

\* FuzzerStats::record_query_with_time
record_query_with_time(stats, success, slow) ==
    [stats EXCEPT !.queries_executed = @ + 1,
                  !.queries_succeeded = @ + (IF success THEN 1 ELSE 0),
                  !.queries_slow = @ + (IF slow THEN 1 ELSE 0)]

\* FuzzerStats::complete_round
complete_round(stats) == [stats EXCEPT !.rounds_completed = @ + 1]

\* FuzzerStats::new_with_timeout
FuzzerStats_new(total_rounds) ==
    [rounds_completed |-> 0, total_rounds |-> total_rounds,
     queries_executed |-> 0, queries_succeeded |-> 0, queries_slow |-> 0]


----------------------------------------------------------------------------
(* The run: main creates a fresh GlobalContext and awaits run_fuzzer *)

\* the configurations taken: those whose run makes at most MaxTests oracle tests
Configs ==
    { c \in [rounds : 0..MaxRounds,
             queries_per_round : 1..MaxQueries,
             max_table_count : 1..MaxTableCountCfg] :
        c.rounds * c.queries_per_round <= MaxTests }

NoStmt == [caller |-> "none", ok |-> FALSE, sql_ok |-> FALSE, from_list |-> <<>>,
           max |-> 0, registry |-> {}]

NoTest == [result |-> "none", generated |-> FALSE, validated |-> 0, results |-> <<>>,
           log |-> <<>>, calls |-> <<>>, report |-> None]

NoAttempts == [tables_drawn |-> 0, tables |-> 0, views_drawn |-> 0, views |-> 0, tests |-> 0]

\* a fresh GlobalContext with one of the given configurations, and the
\* driving task about to call run_fuzzer
ContextInit(configs) ==
    /\ runner_config \in configs
    /\ current_table_idx = 0
    /\ registered_tables = {}
    /\ df_ctx = default_df_session_context(0)
    /\ fuzzer_stats = FuzzerStats_new(runner_config.rounds)
    /\ pc = "run_fuzzer"
    /\ round = 0
    /\ tables_per_round = 0
    /\ table_i = 0
    /\ available_tables = <<>>
    /\ num_views = 0
    /\ view_i = 0
    /\ stmt_builder = SelectStatementBuilder_new
    /\ query_i = 0
    /\ query_group = <<>>
    /\ execution_results = <<>>
    /\ run_result = "running"
    /\ exec_log = <<>>
    /\ engine_calls = <<>>
    /\ last_stmt = NoStmt
    /\ last_test = NoTest
    /\ attempted = NoAttempts
    /\ round_registered = {}
    /\ resets = 0

NoEvent == [kind |-> "none", names |-> <<>>, outcome |-> "none"]

\* the two contexts of the two runs, as constructed
FreshRun ==
    [idx |-> 0, tables |-> {}, session |-> default_df_session_context(0),
     builder |-> SelectStatementBuilder_new, group |-> <<>>, last |-> NoEvent]

Runs == {1, 2}

AuxInit ==
    /\ names_since_reset = <<>>
    /\ handed_before_reset = 0
    /\ was_reset = FALSE
    /\ whitelisted = None
    /\ det_pc = "run_fuzzer"
    /\ det_round = 0
    /\ det_i = 0
    /\ det_n = 0
    /\ det_run = [r \in Runs |-> FreshRun]
    /\ det_env_differed = FALSE

\* no library function is being called on its own
NoCall == [fn |-> "none"]

NoReturn == [level |-> -1]

\* the driving task is in none of the async operations followed on their own
NoTask == [at |-> "idle", guards |-> {}, awaiting |-> FALSE, i |-> 0, n |-> 0]

\* no live-display task was spawned
NoTui == [pc |-> "not_spawned", exit |-> FALSE, stats |-> None]

TaskInit ==
    /\ task = NoTask
    /\ tui = NoTui

LibInit ==
    /\ unit_call = NoCall
    /\ unit_ret = None
    /\ expr_gen = [max_level |-> 0, src_columns |-> {}]
    /\ expr_stack = <<>>
    /\ expr_last = NoReturn
    /\ TaskInit

Init ==
    /\ ContextInit(Configs)
    /\ AuxInit
    /\ arg_error_msg = <<>>
    /\ LibInit

\* where the driving task goes after oracle test i of the round
AfterTest(i) ==
    IF i + 1 < runner_config.queries_per_round THEN "execute_oracle_test" ELSE "round_end"

\* where it goes after the views of the round
AfterViews ==
    IF 0 < runner_config.queries_per_round THEN "execute_oracle_test" ELSE "round_end"

\* run_fuzzer up to the first round: reset_table_counter, then enter the loop
RunFuzzerStart ==
    /\ pc = "run_fuzzer"
    /\ current_table_idx' = reset_table_counter(current_table_idx)
    /\ round' = 0
    /\ IF 0 < runner_config.rounds
       THEN pc' = "generate_datasets" /\ run_result' = run_result
       ELSE pc' = "done" /\ run_result' = "Ok"
    /\ last_stmt' = NoStmt
    /\ last_test' = NoTest
    /\ UNCHANGED <<runner_config, registered_tables, df_ctx, fuzzer_stats,
                   datasets_vars, views_vars, query_i, test_vars, attempted,
                   round_registered, resets>>
    /\ UNCHANGED aux_vars

\* generate_datasets_for_round: draw tables_per_round
GenerateDatasetsBegin ==
    /\ pc = "generate_datasets"
    /\ \E n \in MinTablesPerRound..Min(MaxTablesPerRound, TablesCap) :
          /\ tables_per_round' = n
          /\ attempted' = [NoAttempts EXCEPT !.tables_drawn = n]
    /\ table_i' = 0
    /\ round_registered' = {}
    /\ pc' = "generate_dataset"
    /\ last_stmt' = NoStmt
    /\ last_test' = NoTest
    /\ UNCHANGED <<runner_config, ctx_vars, fuzzer_stats, round, views_vars, query_i,
                   test_vars, run_result, resets>>
    /\ UNCHANGED aux_vars

OnDatasetErrorPropagate == "return_err"

\* generate_datasets_for_round, the Err arm of its match: the error is logged
\* and the loop goes on
OnDatasetError == "continue"

\* DatasetGenerator::generate_dataset with register_table, as the loop body of
\* generate_datasets_for_round calls it: the name is taken first; building the
\* batch or registering it in the engine may fail, and then nothing is registered
GenerateDataset ==
    /\ pc = "generate_dataset"
    /\ table_i < tables_per_round
    /\ LET next == next_table_name(current_table_idx)
       IN  /\ current_table_idx' = next.idx
           /\ \E engine_ok \in BOOLEAN :
                IF engine_ok /\ next.name \notin df_ctx.tables
                THEN /\ df_ctx' = [df_ctx EXCEPT !.tables = @ \cup {next.name}]
                     /\ registered_tables' = registered_tables \cup {next.name}
                     /\ round_registered' = round_registered \cup {next.name}
                     /\ UNCHANGED <<pc, run_result>>
                ELSE /\ UNCHANGED <<df_ctx, registered_tables, round_registered>>
                     /\ IF OnDatasetError = "continue"
                        THEN UNCHANGED <<pc, run_result>>
                        ELSE pc' = "done" /\ run_result' = "Err"
    /\ table_i' = table_i + 1
    /\ attempted' = [attempted EXCEPT !.tables = @ + 1]
    /\ last_stmt' = NoStmt
    /\ last_test' = NoTest
    /\ UNCHANGED <<runner_config, fuzzer_stats, round, tables_per_round, views_vars,
                   query_i, test_vars, resets>>
    /\ UNCHANGED aux_vars

\* the end of generate_datasets_for_round: display_all_tables, whose errors are
\* logged, then Ok(())
DisplayAllTables ==
    /\ pc = "generate_dataset"
    /\ table_i = tables_per_round
    /\ pc' = "generate_views"
    /\ tables_per_round' = 0
    /\ table_i' = 0
    /\ last_stmt' = NoStmt
    /\ last_test' = NoTest
    /\ UNCHANGED <<runner_config, ctx_vars, fuzzer_stats, round, views_vars, query_i,
                   test_vars, run_result, attempted, round_registered, resets>>
    /\ UNCHANGED aux_vars

\* generate_views_for_round up to its loop: snapshot the registry, return when
\* it is empty, else draw num_views and create the round's statement builder
GenerateViewsBegin ==
    /\ pc = "generate_views"
    /\ IF registered_tables = {}
       THEN /\ pc' = AfterViews
            /\ UNCHANGED <<available_tables, num_views, stmt_builder, attempted>>
       ELSE /\ available_tables' \in RegistryValues(registered_tables)
            /\ \E n \in 1..Min(Min(MaxViewsPerRound, Cardinality(registered_tables)),
                               ViewsCap) :
                  /\ num_views' = n
                  /\ attempted' = [attempted EXCEPT !.views_drawn = n]
            /\ stmt_builder' =
                  with_max_table_count(SelectStatementBuilder_new, ViewMaxTableCount)
            /\ pc' = "generate_view"
    /\ view_i' = 0
    /\ query_i' = 0
    /\ last_stmt' = NoStmt
    /\ last_test' = NoTest
    /\ UNCHANGED <<runner_config, ctx_vars, fuzzer_stats, round, datasets_vars,
                   test_vars, run_result, round_registered, resets>>
    /\ UNCHANGED aux_vars

\* the three ways create_and_register_view ends: CREATE VIEW fails; the view
\* is created but the schema query fails; the view is created and registered
ViewOutcomes == {"create_failed", "schema_failed", "registered"}

\* one iteration of the loop of generate_views_for_round: generate_view_sql on
\* the round's builder, then create_and_register_view for "v{i}"; the function
\* returns after the last iteration and its locals are dropped
GenerateView ==
    /\ pc = "generate_view"
    /\ view_i < num_views
    /\ \E values \in RegistryValues(registered_tables) :
       \E draw \in Draws(cfg_max_table_count(stmt_builder, runner_config), Len(values)) :
       \E unparse_ok \in BOOLEAN :
       LET r == generate_stmt(stmt_builder, values, draw)
           view_sql == to_sql_string(r, unparse_ok)
       IN
          /\ last_stmt' = [caller |-> "view", ok |-> r.ok,
                           sql_ok |-> r.ok /\ view_sql.ok,
                           from_list |-> r.from_list,
                           max |-> cfg_max_table_count(stmt_builder, runner_config),
                           registry |-> registered_tables]
          /\ stmt_builder' = IF view_i + 1 < num_views
                             THEN r.builder ELSE SelectStatementBuilder_new
          /\ IF ~r.ok \/ ~view_sql.ok
             THEN UNCHANGED <<df_ctx, registered_tables, round_registered>>
             ELSE \E outcome \in ViewOutcomes :
                    LET view_name == ViewName(view_i)
                    IN  /\ df_ctx' = IF outcome = "create_failed" THEN df_ctx
                                     ELSE [df_ctx EXCEPT !.tables = @ \cup {view_name}]
                        /\ registered_tables' =
                              IF outcome = "registered"
                              THEN registered_tables \cup {view_name}
                              ELSE registered_tables
                        /\ round_registered' =
                              IF outcome = "registered"
                              THEN round_registered \cup {view_name}
                              ELSE round_registered
    /\ attempted' = [attempted EXCEPT !.views = @ + 1]
    /\ IF view_i + 1 < num_views
       THEN /\ pc' = "generate_view"
            /\ view_i' = view_i + 1
            /\ UNCHANGED <<available_tables, num_views>>
       ELSE /\ pc' = AfterViews
            /\ view_i' = 0
            /\ available_tables' = <<>>
            /\ num_views' = 0
    /\ last_test' = NoTest
    /\ UNCHANGED <<runner_config, current_table_idx, fuzzer_stats, round,
                   datasets_vars, query_i, test_vars, run_result, resets>>
    /\ UNCHANGED aux_vars

query_group_of_UnwrapOrDefault(g) ==
    [returned |-> FALSE, group |-> IF g.ok THEN g.group ELSE <<>>]

\* execute_oracle_test, from the match on generate_query_group to the
\* is_empty test: the function returns false at once on Err and on an empty group
query_group_of(g) ==
    IF ~g.ok THEN [returned |-> TRUE, group |-> <<>>]
    ELSE IF g.group = <<>> THEN [returned |-> TRUE, group |-> <<>>]
    ELSE [returned |-> FALSE, group |-> g.group]

AfterQuery_SkipLoop(k, n) == "validate_consistency"

\* execute_oracle_test, "for query_context in query_group": after k of the n queries of
\* the group the loop runs the next one, and the validation follows the last
AfterQuery(k, n) == IF k < n THEN "execute_single_query" ELSE "validate_consistency"

\* execute_oracle_test up to the execution loop: the only available oracle is
\* NoCrashOracle; a failed generation or an empty group returns false at once
ExecuteOracleTest ==
    /\ pc = "execute_oracle_test"
    /\ query_i < runner_config.queries_per_round
    /\ \E values \in RegistryValues(registered_tables) :
       \E draw \in Draws(NoCrashOracle_max_table_count(runner_config), Len(values)) :
       \E unparse_ok \in BOOLEAN :
       LET g == NoCrashOracle_generate_query_group(values, runner_config, df_ctx.id,
                                                   draw, unparse_ok)
       IN
          /\ last_stmt' = [caller |-> "oracle", ok |-> g.stmt.ok, sql_ok |-> g.ok,
                           from_list |-> g.stmt.from_list,
                           max |-> NoCrashOracle_max_table_count(runner_config),
                           registry |-> registered_tables]
          /\ LET m == query_group_of(g)
             IN  IF m.returned
                 THEN /\ last_test' = [NoTest EXCEPT !.result = "failed"]
                      /\ query_group' = <<>>
                      /\ engine_calls' = <<>>
                      /\ query_i' = query_i + 1
                      /\ pc' = AfterTest(query_i)
                 ELSE /\ last_test' = NoTest
                      /\ query_group' = m.group
                      /\ engine_calls' = [k \in 1..Len(m.group) |-> 0]
                      /\ query_i' = query_i
                      /\ pc' = AfterQuery(0, Len(m.group))
    /\ execution_results' = <<>>
    /\ exec_log' = <<>>
    /\ attempted' = [attempted EXCEPT !.tests = @ + 1]
    /\ UNCHANGED <<runner_config, ctx_vars, fuzzer_stats, round, datasets_vars,
                   views_vars, run_result, round_registered, resets>>
    /\ UNCHANGED aux_vars

\* how execute_single_query logs a result: errors are checked against the whitelist
Classify(result) ==
    IF result.ok THEN "no_error"
    ELSE IF is_error_whitelisted(result.msg) THEN "whitelisted"
    ELSE "non_whitelisted"

\* execute_single_query for the next query of the group, with the push of its
\* result: run it under the timeout, classify an error, record the statistics
ExecuteSingleQuery ==
    /\ pc = "execute_single_query"
    /\ Len(execution_results) < Len(query_group)
    /\ LET k == Len(execution_results) + 1
       IN  \E timeout_result \in TimeoutResults :
           \E slow \in SlowValues(timeout_result) :
             LET outcome == execute_query_with_timeout(timeout_result)
             IN
             /\ engine_calls' = [engine_calls EXCEPT ![k] = @ + 1]
             /\ exec_log' = Append(exec_log, [elapsed |-> timeout_result.elapsed,
                                              timed_out |-> outcome.timed_out,
                                              classified |-> Classify(outcome.result)])
             /\ fuzzer_stats' =
                   record_query_with_time(fuzzer_stats, outcome.result.ok, slow)
             /\ execution_results' =
                   Append(execution_results,
                          [query_context |-> query_group[k], result |-> outcome.result])
             /\ pc' = AfterQuery(k, Len(query_group))
    /\ last_stmt' = NoStmt
    /\ last_test' = NoTest
    /\ UNCHANGED <<runner_config, ctx_vars, round, datasets_vars, views_vars, query_i,
                   query_group, run_result, attempted, round_registered, resets>>
    /\ UNCHANGED aux_vars

\* the end of execute_oracle_test: validate_consistency on the collected
\* results; on Err the error report is created and logged.  The function
\* returns and its locals are dropped.
ValidateConsistency ==
    /\ pc = "validate_consistency"
    /\ LET verdict == validate_consistency(execution_results)
       IN  last_test' =
              [result |-> IF verdict = "Ok" THEN "passed" ELSE "failed",
               generated |-> TRUE,
               validated |-> 1,
               results |-> execution_results,
               log |-> exec_log,
               calls |-> engine_calls,
               report |-> IF verdict = "Ok" THEN None
                          ELSE Some(create_error_report(execution_results))]
    /\ query_group' = <<>>
    /\ execution_results' = <<>>
    /\ exec_log' = <<>>
    /\ engine_calls' = <<>>
    /\ query_i' = query_i + 1
    /\ pc' = AfterTest(query_i)
    /\ last_stmt' = NoStmt
    /\ UNCHANGED <<runner_config, ctx_vars, fuzzer_stats, round, datasets_vars,
                   views_vars, run_result, attempted, round_registered, resets>>
    /\ UNCHANGED aux_vars

ShouldResetAlways(r, rounds) == TRUE

\* run_fuzzer: "if round < ctx.runner_config.rounds - 1"; it is evaluated inside
\* the loop only, where rounds >= 1 and the u32 subtraction cannot wrap
ShouldReset(r, rounds) == r < rounds - 1

\* GlobalContext::reset_datafusion_context: a new session, an empty registry,
\* the counter stored to 0
reset_datafusion_context(session, tables, idx) ==
    [df_ctx |-> default_df_session_context(session.id + 1),
     registered_tables |-> {},
     current_table_idx |-> 0]

\* the end of a round of run_fuzzer: update_stat_for_round_completion, the
\* reset between rounds, and the loop's step
CompleteRound ==
    /\ pc = "round_end"
    /\ fuzzer_stats' = complete_round(fuzzer_stats)
    /\ IF ShouldReset(round, runner_config.rounds)
       THEN LET fresh == reset_datafusion_context(df_ctx, registered_tables,
                                                  current_table_idx)
            IN  /\ df_ctx' = fresh.df_ctx
                /\ registered_tables' = fresh.registered_tables
                /\ current_table_idx' = fresh.current_table_idx
                /\ resets' = resets + 1
       ELSE UNCHANGED <<df_ctx, registered_tables, current_table_idx, resets>>
    /\ round' = round + 1
    /\ query_i' = 0
    /\ IF round + 1 < runner_config.rounds
       THEN pc' = "generate_datasets" /\ run_result' = run_result
       ELSE pc' = "done" /\ run_result' = "Ok"
    /\ last_stmt' = NoStmt
    /\ last_test' = NoTest
    /\ UNCHANGED <<runner_config, datasets_vars, views_vars, test_vars, attempted,
                   round_registered>>
    /\ UNCHANGED aux_vars

Next ==
    \/ RunFuzzerStart
    \/ GenerateDatasetsBegin
    \/ GenerateDataset
    \/ DisplayAllTables
    \/ GenerateViewsBegin
    \/ GenerateView
    \/ ExecuteOracleTest
    \/ ExecuteSingleQuery
    \/ ValidateConsistency
    \/ CompleteRound

Spec == Init /\ [][Next]_vars

----------------------------------------------------------------------------
(* The name counter used on its own: a client that calls next_table_name   *)
(* and reset_table_counter of a fresh RuntimeContext in any order          *)

\* one call of RuntimeContext::next_table_name
NextTableName ==
    /\ handed_before_reset + Len(names_since_reset) < MaxNames
    /\ LET next == next_table_name(current_table_idx)
       IN  /\ current_table_idx' = next.idx
           /\ names_since_reset' = Append(names_since_reset, next.name)
    /\ UNCHANGED <<handed_before_reset, was_reset>>
    /\ UNCHANGED <<runner_config, registered_tables, df_ctx, fuzzer_stats, pc, round,
                   datasets_vars, views_vars, query_i, test_vars, run_result, last_stmt,
                   last_test, attempted, round_registered, resets>>
    /\ UNCHANGED <<whitelist_vars, det_vars, lib_vars>>

\* one call of RuntimeContext::reset_table_counter
ResetTableCounter ==
    /\ current_table_idx' = reset_table_counter(current_table_idx)
    /\ handed_before_reset' = handed_before_reset + Len(names_since_reset)
    /\ names_since_reset' = <<>>
    /\ was_reset' = TRUE
    /\ UNCHANGED <<runner_config, registered_tables, df_ctx, fuzzer_stats, pc, round,
                   datasets_vars, views_vars, query_i, test_vars, run_result, last_stmt,
                   last_test, attempted, round_registered, resets>>
    /\ UNCHANGED <<whitelist_vars, det_vars, lib_vars>>

NextCounter ==
    \/ NextTableName
    \/ ResetTableCounter

SpecCounter == Init /\ [][NextCounter]_vars

----------------------------------------------------------------------------
(* is_error_whitelisted called on a message *)

Other == "x"              \* text that occurs in no pattern
LowerCase == "arrow error: divide by zero"   \* the first symbol in another case

MsgSymbols ==
    { "Arrow error: Divide by zero", " error", LowerCase,
      "Error during planning: Cannot coerce arithmetic expression ", " to valid types",
      "Query execution failed: Arrow error: Cast error: value of ",
      " is out of range UINT",
      "Projections require unique expression names",
      Other, Newline }

Messages == UNION { [1..k -> MsgSymbols] : k \in 0..MaxMsgLen }

InitWhitelist ==
    /\ ContextInit({ [rounds |-> 0, queries_per_round |-> 1, max_table_count |-> 1] })
    /\ AuxInit
    /\ arg_error_msg \in Messages
    /\ LibInit

\* the call: is_error_whitelisted(error_msg) returns
IsErrorWhitelisted ==
    /\ whitelisted = None
    /\ whitelisted' = Some(is_error_whitelisted(arg_error_msg))
    /\ UNCHANGED <<run_vars, counter_vars, det_vars, arg_error_msg, lib_vars>>

NextWhitelist == IsErrorWhitelisted

SpecWhitelist == InitWhitelist /\ [][NextWhitelist]_vars

----------------------------------------------------------------------------
(* Two runs of run_fuzzer with the same seed and configuration, each on a  *)
(* fresh context, taken step by step together.  Every rng of the program   *)
(* is seeded from the seed, the round and the loop index, so both runs     *)
(* draw the same values; the engine answers the same statement on the same *)
(* tables the same way.  What may differ between the runs is the iteration *)
(* order of the registry map and whether a query's timer elapses.          *)

\* both runs are in the same state: they hold the same counter, registry,
\* session and builder, and their last outputs are the same
Synced == det_run[1] = det_run[2]

DetAfterTest(i) ==
    IF i + 1 < runner_config.queries_per_round THEN "execute_oracle_test" ELSE "round_end"

DetAfterViews ==
    IF 0 < runner_config.queries_per_round THEN "execute_oracle_test" ELSE "round_end"

\* run_fuzzer up to the first round, in both runs
DetRunFuzzerStart ==
    /\ det_pc = "run_fuzzer"
    /\ Synced
    /\ det_run' = [r \in Runs |->
                     [det_run[r] EXCEPT !.idx = reset_table_counter(@)]]
    /\ det_round' = 0
    /\ det_pc' = IF 0 < runner_config.rounds THEN "generate_datasets" ELSE "done"
    /\ UNCHANGED <<det_i, det_n, det_env_differed>>
    /\ UNCHANGED <<run_vars, counter_vars, whitelist_vars, lib_vars>>

\* generate_datasets_for_round: the draw of tables_per_round, the same in both runs
DetGenerateDatasetsBegin ==
    /\ det_pc = "generate_datasets"
    /\ Synced
    /\ \E n \in MinTablesPerRound..Min(MaxTablesPerRound, TablesCap) : det_n' = n
    /\ det_i' = 0
    /\ det_pc' = "generate_dataset"
    /\ UNCHANGED <<det_round, det_run, det_env_differed>>
    /\ UNCHANGED <<run_vars, counter_vars, whitelist_vars, lib_vars>>

\* one iteration of the loop of generate_datasets_for_round in both runs:
\* the dataset is built from the table's seed and registered, or it fails
DetGenerateDataset ==
    /\ det_pc = "generate_dataset"
    /\ Synced
    /\ det_i < det_n
    /\ \E engine_ok \in BOOLEAN :
          det_run' = [r \in Runs |->
              LET next == next_table_name(det_run[r].idx)
                  registered == engine_ok /\ next.name \notin det_run[r].session.tables
              IN  [det_run[r] EXCEPT
                      !.idx = next.idx,
                      !.tables = IF registered THEN @ \cup {next.name} ELSE @,
                      !.session.tables = IF registered THEN @ \cup {next.name} ELSE @,
                      !.last = [kind |-> "table", names |-> <<next.name>>,
                                outcome |-> IF registered THEN "registered"
                                            ELSE "skipped"]]]
    /\ det_i' = det_i + 1
    /\ det_pc' = IF det_i + 1 < det_n THEN "generate_dataset" ELSE "generate_views"
    /\ UNCHANGED <<det_round, det_n, det_env_differed>>
    /\ UNCHANGED <<run_vars, counter_vars, whitelist_vars, lib_vars>>

\* generate_views_for_round up to its loop in both runs.  The snapshot of the
\* registry values is read for its length only (the table picked from it is
\* not used), so its order is not kept.
DetGenerateViewsBegin ==
    /\ det_pc = "generate_views"
    /\ Synced
    /\ IF det_run[1].tables = {}
       THEN /\ det_pc' = DetAfterViews
            /\ UNCHANGED <<det_n, det_run>>
       ELSE /\ \E n \in 1..Min(Min(MaxViewsPerRound, Cardinality(det_run[1].tables)),
                               ViewsCap) :
                  det_n' = n
            /\ det_run' = [r \in Runs |->
                  [det_run[r] EXCEPT !.builder =
                      with_max_table_count(SelectStatementBuilder_new, ViewMaxTableCount)]]
            /\ det_pc' = "generate_view"
    /\ det_i' = 0
    /\ UNCHANGED <<det_round, det_env_differed>>
    /\ UNCHANGED <<run_vars, counter_vars, whitelist_vars, lib_vars>>

\* one iteration of the loop of generate_views_for_round in both runs: the
\* builders draw the same values, each run reads its map in its own order
DetGenerateView ==
    /\ det_pc = "generate_view"
    /\ Synced
    /\ det_i < det_n
    /\ \E draw \in Draws(cfg_max_table_count(det_run[1].builder, runner_config),
                         Cardinality(det_run[1].tables)) :
       \E unparse_ok \in BOOLEAN :
       \E outcome \in ViewOutcomes :
       \E values \in [Runs -> RegistryValues(det_run[1].tables)] :
          /\ det_run' = [r \in Runs |->
                LET stmt == generate_stmt(det_run[r].builder, values[r], draw)
                    view_sql == to_sql_string(stmt, unparse_ok)
                    sql_ok == stmt.ok /\ view_sql.ok
                    view_name == ViewName(det_i)
                IN  [det_run[r] EXCEPT
                        !.builder = IF det_i + 1 < det_n THEN stmt.builder
                                    ELSE SelectStatementBuilder_new,
                        !.session.tables =
                            IF sql_ok /\ outcome # "create_failed"
                            THEN @ \cup {view_name} ELSE @,
                        !.tables =
                            IF sql_ok /\ outcome = "registered"
                            THEN @ \cup {view_name} ELSE @,
                        !.last = [kind |-> "view", names |-> view_sql.sql.from_list,
                                  outcome |-> IF sql_ok THEN outcome ELSE "skipped"]]]
          /\ det_env_differed' = (det_env_differed \/ values[1] # values[2])
    /\ det_i' = IF det_i + 1 < det_n THEN det_i + 1 ELSE 0
    /\ det_pc' = IF det_i + 1 < det_n THEN "generate_view" ELSE DetAfterViews
    /\ UNCHANGED <<det_round, det_n>>
    /\ UNCHANGED <<run_vars, counter_vars, whitelist_vars, lib_vars>>

\* execute_oracle_test in both runs up to the execution loop: the oracles
\* draw the same values, each run reads its map in its own order
DetExecuteOracleTest ==
    /\ det_pc = "execute_oracle_test"
    /\ Synced
    /\ det_i < runner_config.queries_per_round
    /\ \E draw \in Draws(NoCrashOracle_max_table_count(runner_config),
                         Cardinality(det_run[1].tables)) :
       \E unparse_ok \in BOOLEAN :
       \E values \in [Runs -> RegistryValues(det_run[1].tables)] :
          /\ det_run' = [r \in Runs |->
                LET g == NoCrashOracle_generate_query_group(
                             values[r], runner_config, det_run[r].session.id, draw,
                             unparse_ok)
                    m == query_group_of(g)
                IN  [det_run[r] EXCEPT
                        !.group = m.group,
                        !.last = [kind |-> "query",
                                  names |-> IF g.ok THEN g.stmt.from_list ELSE <<>>,
                                  outcome |-> IF m.returned THEN "failed"
                                              ELSE "generated"]]]
          /\ det_env_differed' = (det_env_differed \/ values[1] # values[2])
    /\ IF det_run'[1].last.outcome = "failed" /\ det_run'[2].last.outcome = "failed"
       THEN det_i' = det_i + 1 /\ det_pc' = DetAfterTest(det_i)
       ELSE det_i' = det_i /\ det_pc' = "execute_queries"
    /\ UNCHANGED <<det_round, det_n>>
    /\ UNCHANGED <<run_vars, counter_vars, whitelist_vars, lib_vars>>

\* the rest of execute_oracle_test in both runs, from the execution loop to
\* the verdict: the engine gives the same answer to the same statement, each
\* run has its own timer
DetExecuteQueries ==
    /\ det_pc = "execute_queries"
    /\ Synced
    /\ \E answer \in EngineResults :
       \E elapsed \in [Runs -> BOOLEAN] :
          /\ det_run' = [r \in Runs |->
                LET timeout_result ==
                        IF elapsed[r]
                        THEN [elapsed |-> TRUE, result |-> [ok |-> FALSE, msg |-> <<>>]]
                        ELSE [elapsed |-> FALSE, result |-> answer]
                    results ==
                        [k \in 1..Len(det_run[r].group) |->
                            [query_context |-> det_run[r].group[k],
                             result |-> execute_query_with_timeout(timeout_result).result]]
                IN  [det_run[r] EXCEPT
                        !.group = <<>>,
                        !.last = [kind |-> "test", names |-> @.names,
                                  outcome |-> IF validate_consistency(results) = "Ok"
                                              THEN "passed" ELSE "failed"]]]
          /\ det_env_differed' = (det_env_differed \/ elapsed[1] # elapsed[2])
    /\ det_i' = det_i + 1
    /\ det_pc' = DetAfterTest(det_i)
    /\ UNCHANGED <<det_round, det_n>>
    /\ UNCHANGED <<run_vars, counter_vars, whitelist_vars, lib_vars>>

\* the end of a round of run_fuzzer in both runs
DetCompleteRound ==
    /\ det_pc = "round_end"
    /\ Synced
    /\ det_run' = [r \in Runs |->
          IF ShouldReset(det_round, runner_config.rounds)
          THEN LET fresh == reset_datafusion_context(det_run[r].session,
                                                     det_run[r].tables, det_run[r].idx)
               IN  [det_run[r] EXCEPT !.session = fresh.df_ctx,
                                      !.tables = fresh.registered_tables,
                                      !.idx = fresh.current_table_idx]
          ELSE det_run[r]]
    /\ det_round' = det_round + 1
    /\ det_i' = 0
    /\ det_pc' = IF det_round + 1 < runner_config.rounds THEN "generate_datasets" ELSE "done"
    /\ UNCHANGED <<det_n, det_env_differed>>
    /\ UNCHANGED <<run_vars, counter_vars, whitelist_vars, lib_vars>>

NextDet ==
    \/ DetRunFuzzerStart
    \/ DetGenerateDatasetsBegin
    \/ DetGenerateDataset
    \/ DetGenerateViewsBegin
    \/ DetGenerateView
    \/ DetExecuteOracleTest
    \/ DetExecuteQueries
    \/ DetCompleteRound

SpecDet == Init /\ [][NextDet]_vars

----------------------------------------------------------------------------
(* Properties of the run *)

IsBaseTable(name) == name.kind = "t"

\* C3: in a run of R rounds the context is reset after every round but the
\* last: every round starts with an empty registry, a fresh and empty engine
\* session and the counter at 0, and hands out names from t0 on; when the run
\* ends exactly R - 1 resets have happened and the registry still holds what
\* the last round registered.
C3_ResetBetweenRounds ==
    /\ pc = "generate_datasets" =>
          /\ registered_tables = {}
          /\ current_table_idx = 0
          /\ df_ctx = default_df_session_context(round)
          /\ resets = round
    /\ pc = "generate_dataset" => current_table_idx = table_i
    /\ pc \notin {"run_fuzzer", "generate_datasets", "done"} =>
          /\ resets = round
          /\ df_ctx.id = round
          /\ registered_tables = round_registered
          /\ \A n \in registered_tables : IsBaseTable(n) => n.idx < attempted.tables
    /\ (pc = "done" /\ runner_config.rounds >= 1) =>
          /\ resets = runner_config.rounds - 1
          /\ df_ctx.id = runner_config.rounds - 1
          /\ registered_tables = round_registered

\* a run of at least two rounds has ended, after a reset, with tables in the registry
C3_Witness ==
    /\ pc = "done"
    /\ runner_config.rounds >= 2
    /\ resets >= 1
    /\ TableName(0) \in registered_tables

\* the log of the oracle test in progress or of the one that just ended
TestLogs ==
    { [log |-> exec_log, calls |-> engine_calls, results |-> execution_results],
      [log |-> last_test.log, calls |-> last_test.calls, results |-> last_test.results] }

\* C5: a query whose timer elapsed yields a failure that is flagged as timed
\* out, the engine ran it once only, and the whitelist check did not classify
\* it as whitelisted.
C5_TimeoutIsFailure ==
    \A t \in TestLogs :
        \A k \in 1..Len(t.log) :
            t.log[k].elapsed =>
                /\ ~t.results[k].result.ok
                /\ t.results[k].result.msg = TimeoutMessage
                /\ t.log[k].timed_out
                /\ t.log[k].classified = "non_whitelisted"
                /\ t.calls[k] = 1

\* an oracle test ended whose query timed out
C5_Witness ==
    /\ last_test.generated
    /\ Len(last_test.log) = 1
    /\ last_test.log[1].elapsed
    /\ last_test.calls[1] = 1

\* result lists of one or two queries, over every kind of engine outcome
ResultLists ==
    LET rs == { [query_context |-> QueryContext_with_description(
                                       [from_list |-> <<TableName(0)>>], 0,
                                       NoCrashDescription),
                 result |-> execute_query_with_timeout(t).result] : t \in TimeoutResults }
    IN  { <<r>> : r \in rs } \cup { <<r1, r2>> : r1 \in rs, r2 \in rs }

C8_GenerationFailuresAreSkipped ==
    /\ run_result # "Err"
    /\ pc \in {"generate_views", "generate_view", "execute_oracle_test",
               "execute_single_query", "validate_consistency", "round_end"} =>
          /\ attempted.tables = attempted.tables_drawn
          /\ attempted.tables_drawn >= MinTablesPerRound
    /\ pc \in {"execute_oracle_test", "execute_single_query", "validate_consistency",
               "round_end"} =>
          attempted.views = attempted.views_drawn
    /\ pc = "round_end" => attempted.tests = runner_config.queries_per_round
    /\ pc = "done" =>
          /\ run_result = "Ok"
          /\ fuzzer_stats.rounds_completed = runner_config.rounds

\* a round ended in which a table and a view were skipped, with all of its
\* tables, views and oracle tests attempted
C8_Witness ==
    /\ pc = "round_end"
    /\ attempted.tables = attempted.tables_drawn
    /\ Cardinality({n \in round_registered : IsBaseTable(n)}) < attempted.tables
    /\ attempted.views_drawn >= 1
    /\ Cardinality({n \in round_registered : ~IsBaseTable(n)}) < attempted.views
    /\ attempted.tests = runner_config.queries_per_round

\* C9: every generate_stmt call fails exactly when the registry is empty, and
\* otherwise returns a FROM list of 1..N pairwise distinct registered tables,
\* N being the builder's override or else the configured max_table_count.
C9_FromListWithinBounds ==
    last_stmt.caller # "none" =>
        /\ last_stmt.ok <=> last_stmt.registry # {}
        /\ last_stmt.ok =>
              /\ Len(last_stmt.from_list) \in 1..last_stmt.max
              /\ \A i, j \in 1..Len(last_stmt.from_list) :
                    i # j => last_stmt.from_list[i] # last_stmt.from_list[j]
              /\ Range(last_stmt.from_list) \subseteq last_stmt.registry

\* C10: the queries of the no-crash oracle read from base tables only
C10_OnlyBaseTables ==
    \A i \in 1..Len(query_group) :
        \A k \in 1..Len(query_group[i].query.from_list) :
            IsBaseTable(query_group[i].query.from_list[k])

----------------------------------------------------------------------------
(* Properties of the name counter *)

\* C2: after reset_table_counter the names handed out are t0, t1, t2, ... in
\* that order, however many names were handed out before the reset.
C2_NamesRestartAtT0 ==
    was_reset =>
        names_since_reset = [k \in 1..Len(names_since_reset) |-> TableName(k - 1)]

\* names were handed out, the counter was reset, and three more were handed out
C2_Witness ==
    /\ was_reset
    /\ handed_before_reset >= 2
    /\ Len(names_since_reset) >= 3

----------------------------------------------------------------------------
(* Properties of the whitelist *)

\* a Contains pattern matches: the message holds the text as a contiguous part
ContainsMatches(str, msg) ==
    \E a \in 1..(Len(msg) + 1) : \E b \in 0..Len(msg) : SubSeq(msg, a, b) = str

\* the text is in the language of the regex, read from its end: a literal
\* stands for itself, (.+) for one or more characters other than newline
RECURSIVE InLanguage(_, _)
InLanguage(regex, text) ==
    IF regex = <<>> THEN text = <<>>
    ELSE LET final == regex[Len(regex)]
             front == SubSeq(regex, 1, Len(regex) - 1)
         IN  IF final = AnyPlus
             THEN \E k \in 1..Len(text) :
                     /\ \A x \in (Len(text) - k + 1)..Len(text) : text[x] # Newline
                     /\ InLanguage(front, SubSeq(text, 1, Len(text) - k))
             ELSE /\ text # <<>>
                  /\ text[Len(text)] = final
                  /\ InLanguage(front, SubSeq(text, 1, Len(text) - 1))

\* a RegexMatch pattern matches: some part of the message is in its language
RegexFinds(regex, msg) ==
    \E a \in 1..(Len(msg) + 1) : \E b \in 0..Len(msg) :
        InLanguage(regex, SubSeq(msg, a, b))

SomePatternMatches(msg) ==
    \E i \in 1..Len(ERROR_PATTERNS) :
        IF ERROR_PATTERNS[i].type = "Contains"
        THEN ContainsMatches(ERROR_PATTERNS[i].str, msg)
        ELSE RegexFinds(ERROR_PATTERNS[i].str, msg)

\* the pattern list in another order
Reordered(perm) == [i \in 1..Len(ERROR_PATTERNS) |-> ERROR_PATTERNS[perm[i]]]

\* C4: is_error_whitelisted answers true exactly when some pattern matches
\* the message: a Contains pattern when the message holds it as a part, in
\* the same case, a RegexMatch pattern when its regex finds a match; the
\* empty message gives false; and the answer is the same for every order of
\* the patterns.
C4_WhitelistedIffSomePatternMatches ==
    IsSome(whitelisted) =>
        /\ Unwrap(whitelisted) <=> SomePatternMatches(arg_error_msg)
        /\ arg_error_msg = <<>> => ~Unwrap(whitelisted)
        /\ \A perm \in Permutations(1..Len(ERROR_PATTERNS)) :
              WhitelistedFrom(Reordered(perm), CompileAll(Reordered(perm)),
                              arg_error_msg, 1) = Unwrap(whitelisted)

\* a message that holds a Contains pattern between other text was found whitelisted
C4_Witness ==
    /\ whitelisted = Some(TRUE)
    /\ arg_error_msg = <<Other, "Arrow error: Divide by zero", " error", Other>>

----------------------------------------------------------------------------
(* Properties of two runs with one seed *)

\* C1: two runs with the same seed and configuration, each from a fresh
\* context, produce the same table names, the same statements and the same
\* oracle verdicts, step by step, and so hold the same registry and counter;
\* this whatever order the registry map iterates in and whichever queries
\* time out in either run.
C1_SameSeedSameOutputs ==
    /\ det_run[1].last = det_run[2].last
    /\ det_run[1].tables = det_run[2].tables
    /\ det_run[1].idx = det_run[2].idx
    /\ det_run[1] = det_run[2]

\* both runs have ended after an oracle test, and their map orders or their
\* timeouts differed on the way
C1_Witness ==
    /\ det_pc = "done"
    /\ det_env_differed
    /\ det_run[1].last.kind = "test"
    /\ det_run[1].last.outcome = "passed"
    /\ Len(det_run[1].last.names) >= 2

----------------------------------------------------------------------------
(* Data types.  A native engine type (arrow DataType) is a record of its   *)
(* kind and its parameters; the parameters a kind does not have are empty. *)

DataType(kind, unit, tz, p, s) == [kind |-> kind, unit |-> unit, tz |-> tz, p |-> p, s |-> s]

SimpleType(kind) == DataType(kind, "", "", 0, 0)

\* enum FuzzerDataType, in declaration order
FuzzerDataTypes ==
    << "Int32", "Int64", "UInt32", "UInt64", "Float32", "Float64", "Boolean", "Decimal",
       "Date32", "Time64Nanosecond", "Timestamp", "IntervalMonthDayNano" >>

\* the mutant: Int64 is given the native type of Int32
to_datafusion_type_Int64AsInt32(t) ==
    CASE t = "Decimal" -> DataType("Decimal128", "", "", 10, 2)
      [] t = "Time64Nanosecond" -> DataType("Time64", "Nanosecond", "", 0, 0)
      [] t = "Timestamp" -> DataType("Timestamp", "Nanosecond", "", 0, 0)
      [] t = "IntervalMonthDayNano" -> DataType("Interval", "MonthDayNano", "", 0, 0)
      [] t = "Int64" -> SimpleType("Int32")
      [] OTHER -> SimpleType(t)

\* FuzzerDataType::to_datafusion_type
to_datafusion_type(t) ==
    CASE t = "Decimal" -> DataType("Decimal128", "", "", 10, 2)
      [] t = "Time64Nanosecond" -> DataType("Time64", "Nanosecond", "", 0, 0)
      [] t = "Timestamp" -> DataType("Timestamp", "Nanosecond", "", 0, 0)
      [] t = "IntervalMonthDayNano" -> DataType("Interval", "MonthDayNano", "", 0, 0)
      [] OTHER -> SimpleType(t)

\* FuzzerDataType::from_datafusion_type: Option<FuzzerDataType>
from_datafusion_type(data_type) ==
    CASE data_type.kind \in {"Int32", "Int64", "UInt32", "UInt64", "Float32", "Float64",
                             "Boolean", "Date32"} -> Some(data_type.kind)
      [] data_type.kind \in {"Decimal128", "Decimal256"} -> Some("Decimal")
      [] data_type.kind = "Time64" /\ data_type.unit = "Nanosecond" -> Some("Time64Nanosecond")
      [] data_type.kind = "Timestamp" /\ data_type.unit = "Nanosecond" -> Some("Timestamp")
      [] data_type.kind = "Interval" /\ data_type.unit = "MonthDayNano"
            -> Some("IntervalMonthDayNano")
      [] OTHER -> None

\* FuzzerDataType::is_numeric
is_numeric(t) ==
    t \in {"Int32", "Int64", "UInt32", "UInt64", "Float32", "Float64", "Decimal"}

\* FuzzerDataType::is_time
is_time(t) == t \in {"Date32", "Time64Nanosecond", "Timestamp", "IntervalMonthDayNano"}

\* the list that init_available_data_types sets
get_available_data_types == FuzzerDataTypes

\* get_numeric_data_types, get_time_data_types: the filtered list, in order
get_numeric_data_types == SelectSeq(get_available_data_types, is_numeric)

get_time_data_types == SelectSeq(get_available_data_types, is_time)

\* native types that are not the image of a FuzzerDataType
OtherDataTypes ==
    { SimpleType("Utf8"),
      DataType("Decimal128", "", "", 38, 10),
      DataType("Decimal256", "", "", 76, 2),
      DataType("Time64", "Microsecond", "", 0, 0),
      DataType("Timestamp", "Nanosecond", "UTC", 0, 0),
      DataType("Timestamp", "Millisecond", "", 0, 0),
      DataType("Interval", "YearMonth", "", 0, 0) }

DataTypes == { to_datafusion_type(t) : t \in Range(FuzzerDataTypes) } \cup OtherDataTypes

----------------------------------------------------------------------------
(* The expression generator (query_generator/expr_def.rs, expr_impl.rs,    *)
(* expr_gen.rs).  An expression is a tree: a leaf (column reference or     *)
(* literal) or an operator node with its child expressions.  Every node    *)
(* carries ty, the target type of the generate_random_expr call that       *)
(* returned it.                                                            *)

MaxExprLevel == 2         \* runner_config.max_expr_level ranges over 0..MaxExprLevel

\* enum TypeGroup
SameAsOutput == [group |-> "SameAsOutput", dts |-> <<>>]

Fixed(dt) == [group |-> "Fixed", dts |-> <<dt>>]

OneOf(dts) == [group |-> "OneOf", dts |-> dts]

\* the native types of a list of fuzzer types
to_datafusion_types(seq) == [i \in 1..Len(seq) |-> to_datafusion_type(seq[i])]

\* struct ExprWrapper
ExprWrapper(expr, return_type, inferred_child_signature) ==
    [expr |-> expr, return_type |-> return_type,
     inferred_child_signature |-> inferred_child_signature]

\* AddExpr, SubExpr: numeric and time types; MulExpr, DivExpr, ModExpr: numeric types;
\* AndExpr, OrExpr: Boolean.  All of them: one signature, (SameAsOutput, SameAsOutput)
describe(base_expr) ==
    LET return_type ==
            CASE base_expr \in {"Add", "Sub"} ->
                    to_datafusion_types(get_numeric_data_types \o get_time_data_types)
              [] base_expr \in {"Mul", "Div", "Mod"} ->
                    to_datafusion_types(get_numeric_data_types)
              [] base_expr \in {"And", "Or"} -> <<to_datafusion_type("Boolean")>>
    IN  ExprWrapper(base_expr, return_type, << <<SameAsOutput, SameAsOutput>> >>)

\* enum BaseExpr, in declaration order
BaseExpr == <<"Add", "Sub", "Mul", "Div", "Mod", "And", "Or">>

\* all_available_exprs: the wrapper of every BaseExpr, in order
all_available_exprs == [i \in 1..Len(BaseExpr) |-> describe(BaseExpr[i])]

\* the draws of pick_child_signature: the index of the signature, and per slot the
\* index into the set of a OneOf slot (0 for the other slots, which draw nothing)
SignatureDraws(wrapper) ==
    UNION { { [sig |-> i, picks |-> pk] :
                pk \in { f \in [1..Len(wrapper.inferred_child_signature[i + 1]) -> 0..1] :
                           \A k \in DOMAIN f :
                              LET g == wrapper.inferred_child_signature[i + 1][k]
                              IN  IF g.group = "OneOf" THEN f[k] < Len(g.dts) ELSE f[k] = 0 } } :
            i \in 0..(Len(wrapper.inferred_child_signature) - 1) }

\* the mutant: a OneOf slot is resolved to the output type
pick_child_signature_OneOfAsOutput(wrapper, output_type, draw) ==
    LET signature == wrapper.inferred_child_signature[draw.sig + 1]
    IN  [k \in 1..Len(signature) |->
            CASE signature[k].group = "SameAsOutput" -> output_type
              [] signature[k].group = "Fixed" -> signature[k].dts[1]
              [] signature[k].group = "OneOf" -> output_type]

\* ExprWrapper::pick_child_signature
pick_child_signature(wrapper, output_type, draw) ==
    LET signature == wrapper.inferred_child_signature[draw.sig + 1]
    IN  [k \in 1..Len(signature) |->
            CASE signature[k].group = "SameAsOutput" -> output_type
              [] signature[k].group = "Fixed" -> signature[k].dts[1]
              [] signature[k].group = "OneOf" -> signature[k].dts[draw.picks[k] + 1]]

\* pick_random_expr_with_return_type: the wrappers whose return types contain the target
expr_with_return_type(target_type) ==
    SelectSeq(all_available_exprs, LAMBDA w : target_type \in Range(w.return_type))

\* Expr::Column, Expr::Literal
Leaf(kind, of, ty) == [expr |-> kind, of |-> of, ty |-> ty, children |-> <<>>]

\* build_with_childs / build_expr: the binary expression of the first two children
build_with_childs(base_expr, child_exprs, ty) ==
    [expr |-> base_expr, of |-> "", ty |-> ty, children |-> <<child_exprs[1], child_exprs[2]>>]

IsLeaf(e) == e.children = <<>>

\* generate_leaf_expr: a column of the target type when there is one and the coin says so,
\* else a literal of the fuzzer type of the target, of Boolean when it has none
generate_leaf_expr(gen, target_type, use_column) ==
    IF target_type \in gen.src_columns /\ use_column
    THEN Leaf("Column", "", target_type)
    ELSE IF IsSome(from_datafusion_type(target_type))
         THEN Leaf("Literal", Unwrap(from_datafusion_type(target_type)), target_type)
         ELSE Leaf("Literal", "Boolean", target_type)

\* the mutant: the cap is compared one level too late
leaf_is_forced_OffByOne(cur_level, max_level) == cur_level = max_level + 1

\* generate_random_expr, the first operand of its test: the hard cap
leaf_is_forced(cur_level, max_level) == cur_level = max_level

\* the frame of a generate_random_expr call that is building an operator node
ExprFrame(target_type, cur_level, random_expr, signature, child_signature) ==
    [target_type |-> target_type, cur_level |-> cur_level, random_expr |-> random_expr,
     signature |-> signature, child_signature |-> child_signature, child_exprs |-> <<>>]

NoWrapper == ExprWrapper("", <<>>, <<>>)

\* generate_random_expr(target_type, 0) of a generator with any max_level
GenerateCalls ==
    { [fn |-> "generate_random_expr", target_type |-> t, wrapper |-> NoWrapper] :
        t \in DataTypes }

\* wrappers for calls of pick_child_signature on its own: the catalog's, and wrappers of
\* one or two signatures of one or two slots of every kind
SlotKinds ==
    { SameAsOutput, Fixed(SimpleType("Int64")),
      OneOf(<<SimpleType("Int32"), SimpleType("Float64")>>) }

Signatures == UNION { [1..n -> SlotKinds] : n \in 1..2 }

Wrappers ==
    Range(all_available_exprs) \cup
    { ExprWrapper("Add", <<SimpleType("Int64"), SimpleType("Float64")>>, sigs) :
        sigs \in UNION { [1..n -> Signatures] : n \in 1..2 } }

PickCalls ==
    { [fn |-> "pick_child_signature", target_type |-> t, wrapper |-> w] :
        t \in {SimpleType("Int64"), SimpleType("Float64")}, w \in Wrappers }

InitExpr ==
    /\ ContextInit({ [rounds |-> 0, queries_per_round |-> 1, max_table_count |-> 1] })
    /\ AuxInit
    /\ arg_error_msg = <<>>
    /\ unit_call \in GenerateCalls \cup PickCalls
    /\ unit_ret = None
    /\ expr_gen \in [max_level : 0..MaxExprLevel,
                     src_columns : { {}, { to_datafusion_type(t) : t \in Range(FuzzerDataTypes) } }]
    /\ unit_call.fn = "pick_child_signature" => expr_gen = [max_level |-> 0, src_columns |-> {}]
    /\ expr_stack = <<>>
    /\ expr_last = NoReturn
    /\ TaskInit

\* a generate_random_expr call at cur_level returns e: to the caller of the top-level call,
\* or into the child list of the call that made it (stack is the stack without the callee)
ExprReturn(e, cur_level, signature, child_signature, stack) ==
    /\ expr_last' = [level |-> cur_level, expr |-> e, signature |-> signature,
                     child_signature |-> child_signature]
    /\ IF stack = <<>>
       THEN /\ unit_ret' = Some(e)
            /\ expr_stack' = stack
       ELSE /\ unit_ret' = unit_ret
            /\ expr_stack' =
                 [stack EXCEPT ![Len(stack)].child_exprs = Append(@, e)]

\* generate_random_expr is entered: by the top-level call, or for the next child of the
\* innermost call.  It returns a leaf, or picks an operator and a signature and goes on
\* to generate the children
GenerateRandomExpr ==
    /\ unit_call.fn = "generate_random_expr"
    /\ unit_ret = None
    /\ \/ expr_stack = <<>>
       \/ /\ expr_stack # <<>>
          /\ Len(expr_stack[Len(expr_stack)].child_exprs)
                < Len(expr_stack[Len(expr_stack)].child_signature)
    /\ LET top == expr_stack[Len(expr_stack)]
           target_type == IF expr_stack = <<>> THEN unit_call.target_type
                          ELSE top.child_signature[Len(top.child_exprs) + 1]
           cur_level == IF expr_stack = <<>> THEN 0 ELSE top.cur_level + 1
           candidates == expr_with_return_type(target_type)
       IN  \E half_chance \in BOOLEAN, use_column \in BOOLEAN :
              IF leaf_is_forced(cur_level, expr_gen.max_level) \/ half_chance
                 \/ candidates = <<>>
              THEN ExprReturn(generate_leaf_expr(expr_gen, target_type, use_column),
                              cur_level, <<>>, <<>>, expr_stack)
              ELSE \E i \in 0..(Len(candidates) - 1) :
                   \E draw \in SignatureDraws(candidates[i + 1]) :
                      LET random_expr == candidates[i + 1]
                          child_signature ==
                              pick_child_signature(random_expr, target_type, draw)
                      IN  /\ expr_stack' =
                                Append(expr_stack,
                                       ExprFrame(target_type, cur_level, random_expr.expr,
                                                 random_expr.inferred_child_signature[draw.sig + 1],
                                                 child_signature))
                          /\ expr_last' = NoReturn
                          /\ unit_ret' = unit_ret
    /\ UNCHANGED <<unit_call, expr_gen>>
    /\ UNCHANGED <<run_vars, counter_vars, whitelist_vars, det_vars, task_vars>>

\* all children of the innermost call are generated: it builds its node and returns it
BuildWithChilds ==
    /\ unit_call.fn = "generate_random_expr"
    /\ expr_stack # <<>>
    /\ LET top == expr_stack[Len(expr_stack)]
       IN  /\ Len(top.child_exprs) = Len(top.child_signature)
           /\ ExprReturn(build_with_childs(top.random_expr, top.child_exprs, top.target_type),
                         top.cur_level, top.signature, top.child_signature,
                         SubSeq(expr_stack, 1, Len(expr_stack) - 1))
    /\ UNCHANGED <<unit_call, expr_gen>>
    /\ UNCHANGED <<run_vars, counter_vars, whitelist_vars, det_vars, task_vars>>

\* a call of pick_child_signature on its own
PickChildSignature ==
    /\ unit_call.fn = "pick_child_signature"
    /\ unit_ret = None
    /\ \E draw \in SignatureDraws(unit_call.wrapper) :
          LET signature == unit_call.wrapper.inferred_child_signature[draw.sig + 1]
              picked_types == pick_child_signature(unit_call.wrapper, unit_call.target_type, draw)
          IN  /\ unit_ret' = Some(picked_types)
              /\ expr_last' = [level |-> 0, expr |-> Leaf("", "", unit_call.target_type),
                               signature |-> signature, child_signature |-> picked_types]
    /\ UNCHANGED <<unit_call, expr_gen, expr_stack>>
    /\ UNCHANGED <<run_vars, counter_vars, whitelist_vars, det_vars, task_vars>>

NextExpr ==
    \/ GenerateRandomExpr
    \/ BuildWithChilds
    \/ PickChildSignature

\* the calls run to completion: a step is taken whenever one is possible
SpecExpr == InitExpr /\ [][NextExpr]_vars /\ WF_vars(NextExpr)

----------------------------------------------------------------------------
(* Properties of the expression generator *)

Max(a, b) == IF a < b THEN b ELSE a

\* operator nesting depth of an expression: 0 for a leaf
RECURSIVE Depth(_)
Depth(e) ==
    IF IsLeaf(e) THEN 0
    ELSE 1 + Max(Depth(e.children[1]), Depth(e.children[2]))

\* every path of e from the root to a leaf passes through d operators
RECURSIVE FullTree(_, _)
FullTree(e, d) ==
    IF d = 0 THEN IsLeaf(e)
    ELSE /\ ~IsLeaf(e)
         /\ \A k \in DOMAIN e.children : FullTree(e.children[k], d - 1)

GenerateReturned == unit_call.fn = "generate_random_expr" /\ expr_last.level >= 0

\* C11: generate_random_expr called at level 0 terminates, and the tree it returns has
\* operator nesting depth at most max_expr_level (a call at level l returns a tree of depth
\* at most max_expr_level - l); a call at level max_expr_level returns a leaf.
C11_TerminatesWithinDepthCap ==
    /\ [](GenerateReturned =>
            /\ expr_last.level + Depth(expr_last.expr) <= expr_gen.max_level
            /\ (expr_last.level = expr_gen.max_level => IsLeaf(expr_last.expr)))
    /\ [](unit_ret # None /\ unit_call.fn = "generate_random_expr" =>
            Depth(Unwrap(unit_ret)) <= expr_gen.max_level)
    /\ (unit_call.fn = "generate_random_expr" ~> unit_ret # None)

\* the coin never chose a leaf: the top-level call returned the full tree of the largest depth
C11_Witness ==
    /\ unit_call.fn = "generate_random_expr"
    /\ unit_ret # None
    /\ expr_gen.max_level = MaxExprLevel
    /\ FullTree(Unwrap(unit_ret), expr_gen.max_level)

\* the type group g of a signature is resolved to the type dt for the output type T
Resolves(g, dt, T) ==
    CASE g.group = "SameAsOutput" -> dt = T
      [] g.group = "Fixed" -> dt = g.dts[1]
      [] g.group = "OneOf" -> dt \in Range(g.dts)

\* C12: for every operator node built for target type T, T is one of the operator's return
\* types and the resolved child types are as long as the chosen signature, slot by slot
\* T for SameAsOutput, the fixed type for Fixed, a member of the set for OneOf (also for
\* every call of pick_child_signature on its own); both children of a node of the catalog
\* are generated with target type T.
C12_ChildTypesFollowSignature ==
    (expr_last.level >= 0 /\ expr_last.signature # <<>>) =>
        LET T == expr_last.expr.ty
            node == expr_last.expr
        IN  /\ Len(expr_last.child_signature) = Len(expr_last.signature)
            /\ \A k \in DOMAIN expr_last.signature :
                  Resolves(expr_last.signature[k], expr_last.child_signature[k], T)
            /\ unit_call.fn = "generate_random_expr" =>
                  /\ T \in Range(describe(node.expr).return_type)
                  /\ Len(node.children) = 2
                  /\ \A k \in DOMAIN node.children : node.children[k].ty = T

\* a Decimal operator node with two operator children was built
C12_Witness ==
    /\ GenerateReturned
    /\ ~IsLeaf(expr_last.expr)
    /\ expr_last.expr.ty = to_datafusion_type("Decimal")
    /\ \A k \in DOMAIN expr_last.expr.children : ~IsLeaf(expr_last.expr.children[k])

----------------------------------------------------------------------------
(* The type conversions called on their own: two variants are converted to *)
(* their native types, and the native types are converted back.            *)

InitTypes ==
    /\ ContextInit({ [rounds |-> 0, queries_per_round |-> 1, max_table_count |-> 1] })
    /\ AuxInit
    /\ arg_error_msg = <<>>
    /\ unit_call \in { [fn |-> "to_datafusion_type", a |-> a, b |-> b] :
                         a \in Range(FuzzerDataTypes), b \in Range(FuzzerDataTypes) }
    /\ unit_ret = None
    /\ expr_gen = [max_level |-> 0, src_columns |-> {}]
    /\ expr_stack = <<>>
    /\ expr_last = NoReturn
    /\ TaskInit

\* to_datafusion_type of both variants
ToDatafusionType ==
    /\ unit_ret = None
    /\ unit_ret' = Some([native |-> <<to_datafusion_type(unit_call.a),
                                      to_datafusion_type(unit_call.b)>>,
                         back |-> <<>>])
    /\ UNCHANGED <<unit_call, expr_vars>>
    /\ UNCHANGED <<run_vars, counter_vars, whitelist_vars, det_vars, task_vars>>

\* from_datafusion_type of both native types
FromDatafusionType ==
    /\ unit_ret # None
    /\ Unwrap(unit_ret).back = <<>>
    /\ unit_ret' = Some([Unwrap(unit_ret) EXCEPT
                            !.back = <<from_datafusion_type(Unwrap(unit_ret).native[1]),
                                       from_datafusion_type(Unwrap(unit_ret).native[2])>>])
    /\ UNCHANGED <<unit_call, expr_vars>>
    /\ UNCHANGED <<run_vars, counter_vars, whitelist_vars, det_vars, task_vars>>

NextTypes ==
    \/ ToDatafusionType
    \/ FromDatafusionType

SpecTypes == InitTypes /\ [][NextTypes]_vars

\* C13: for each of the 12 variants t, from_datafusion_type(to_datafusion_type(t)) is t,
\* and two distinct variants have distinct native types.
C13_TypeRoundTrip ==
    /\ Len(FuzzerDataTypes) = 12
    /\ unit_ret # None =>
          /\ unit_call.a # unit_call.b =>
                Unwrap(unit_ret).native[1] # Unwrap(unit_ret).native[2]
          /\ Unwrap(unit_ret).back # <<>> =>
                /\ Unwrap(unit_ret).back[1] = Some(unit_call.a)
                /\ Unwrap(unit_ret).back[2] = Some(unit_call.b)

\* Decimal and Timestamp were converted to their native types and back
C13_Witness ==
    /\ unit_ret # None
    /\ unit_call.a = "Decimal"
    /\ unit_call.b = "Timestamp"
    /\ Unwrap(unit_ret).back = <<Some("Decimal"), Some("Timestamp")>>

----------------------------------------------------------------------------
(* Wide integers.  An i128 does not fit a model integer: a natural number  *)
(* is the sequence of its decimal digits, least significant first, without *)
(* leading zeros (0 is the empty sequence); a signed number is a sign and  *)
(* a magnitude.                                                            *)

RECURSIVE Normalize(_)
Normalize(d) ==
    IF d = <<>> THEN <<>>
    ELSE IF d[Len(d)] = 0 THEN Normalize(SubSeq(d, 1, Len(d) - 1))
    ELSE d

RECURSIVE NatDigits(_)
NatDigits(n) == IF n = 0 THEN <<>> ELSE <<n % 10>> \o NatDigits(n \div 10)

RECURSIVE MulCarry(_, _, _)
MulCarry(d, k, carry) ==
    IF d = <<>> THEN NatDigits(carry)
    ELSE <<(d[1] * k + carry) % 10>> \o MulCarry(Tail(d), k, (d[1] * k + carry) \div 10)

\* d * k for a natural d and a small k >= 0
MulSmall(d, k) == Normalize(MulCarry(d, k, 0))

\* a < b for naturals
RECURSIVE BigLess(_, _)
BigLess(a, b) ==
    IF Len(a) # Len(b) THEN Len(a) < Len(b)
    ELSE IF a = <<>> THEN FALSE
    ELSE IF a[Len(a)] # b[Len(b)] THEN a[Len(a)] < b[Len(b)]
    ELSE BigLess(SubSeq(a, 1, Len(a) - 1), SubSeq(b, 1, Len(b) - 1))

Reverse(seq) == [i \in 1..Len(seq) |-> seq[Len(seq) + 1 - i]]

Abs(n) == IF n < 0 THEN -n ELSE n

Signed(neg, mag) == [neg |-> neg /\ mag # <<>>, mag |-> mag]

\* i128::MAX = 170141183460469231731687303715884105727
I128Max ==
    Reverse(<< 1,7,0,1,4,1,1,8,3,4,6,0,4,6,9,2,3,1,7,3,1,6,8,7,3,0,3,7,1,5,8,8,4,1,0,5,7,2,7 >>)

\* does the signed number lie outside i128 (the magnitude of i128::MIN is I128Max + 1)
OverflowsI128(x) ==
    IF x.neg THEN BigLess(I128Max, x.mag) /\ x.mag # Normalize(MulCarry(I128Max, 1, 1))
    ELSE BigLess(I128Max, x.mag)

\* 10_i128.pow(exp): the product of exp factors 10, and whether a product left i128
RECURSIVE I128Pow10(_)
I128Pow10(exp) ==
    IF exp = 0 THEN [value |-> Signed(FALSE, <<1>>), overflow |-> FALSE]
    ELSE LET prev == I128Pow10(exp - 1)
             value == Signed(FALSE, MulSmall(prev.value.mag, 10))
         IN  [value |-> value, overflow |-> prev.overflow \/ OverflowsI128(value)]

\* a * b of i128 for a small a: the product, and whether it left i128
I128Mul(a, b) ==
    LET value == Signed((a < 0) # b.neg, MulSmall(b.mag, Abs(a)))
    IN  [value |-> value, overflow |-> OverflowsI128(value)]

\* a / p and a % p of i128 (truncating, the remainder has the sign of a) for p a power of ten
I128Div(a, p) ==
    Signed(a.neg, Normalize(SubSeq(a.mag, Len(p.mag), Len(a.mag))))

I128Rem(a, p) ==
    Signed(a.neg, Normalize(SubSeq(a.mag, 1, Min(Len(p.mag) - 1, Len(a.mag)))))

----------------------------------------------------------------------------
(* Decimal values (common/value_generator.rs): generate_value draws a      *)
(* precision, a scale and a mantissa; to_sql_string and to_scalar_value    *)
(* render the value.                                                       *)

SafeScaleCap == 30            \* value_generator.rs:365  min(scale as u32, 30)
MaxDecimalPrecision == 76     \* value_generator.rs:93   random_range(1..=76)
MaxSimpleValue == 99999       \* value_generator.rs:98   random_range(-99999..=99999)
MaxDecimal128Precision == 38  \* value_generator.rs:328  precision <= 38

\* the mutant: the power is computed without the cap
safe_power_of_10_Unclamped(scale) == I128Pow10(IF scale < 0 THEN SafeScaleCap ELSE scale)

\* safe_power_of_10: 10^min(scale as u32, 30); a negative i8 is a large u32
safe_power_of_10(scale) ==
    LET safe_scale == IF scale < 0 THEN SafeScaleCap ELSE Min(scale, SafeScaleCap)
    IN  CASE safe_scale = 0 -> [value |-> Signed(FALSE, <<1>>), overflow |-> FALSE]
          [] safe_scale \in 1..SafeScaleCap -> I128Pow10(safe_scale)
          [] OTHER -> I128Pow10(SafeScaleCap)

\* GeneratedValue::Decimal { value, precision, scale }
GeneratedDecimal(value, precision, scale) ==
    [value |-> value, precision |-> precision, scale |-> scale]

\* generate_value, the Decimal arm, for the three draws
generate_value_Decimal(precision, scale, simple_value) ==
    LET scale_factor == safe_power_of_10(scale)
        decimal_value == I128Mul(simple_value, scale_factor.value)
    IN  [value |-> GeneratedDecimal(decimal_value.value, precision, scale),
         scale_factor |-> scale_factor,
         overflow |-> scale_factor.overflow \/ decimal_value.overflow]

\* "{:0width$}" of a natural: its digits, most significant first, zero-padded to width
ZeroPadded(mag, width) ==
    LET digits == IF mag = <<>> THEN <<0>> ELSE Reverse(mag)
    IN  [i \in 1..(Max(width, Len(digits)) - Len(digits)) |-> 0] \o digits

\* a numeric literal: sign, digits before the point, digits after it (none: no point)
Literal(neg, int, frac) == [neg |-> neg, int |-> int, frac |-> frac]

\* GeneratedValue::to_sql_string, the Decimal arm
GeneratedValue_to_sql_string_Decimal(v) ==
    IF v.scale > 0
    THEN LET scale_factor == safe_power_of_10(v.scale).value
             integer_part == I128Div(v.value, scale_factor)
             fractional_part == I128Rem(v.value, scale_factor).mag
         IN  Literal(integer_part.neg, ZeroPadded(integer_part.mag, 1),
                     ZeroPadded(fractional_part, v.scale))
    ELSE Literal(v.value.neg, ZeroPadded(v.value.mag, 1), <<>>)

\* GeneratedValue::to_scalar_value, the Decimal arm: Decimal128 up to precision 38,
\* Decimal256 (i256::from_i128, the same number) above
GeneratedValue_to_scalar_value_Decimal(v) ==
    [variant |-> IF v.precision <= MaxDecimal128Precision THEN "Decimal128" ELSE "Decimal256",
     value |-> v.value, precision |-> v.precision, scale |-> v.scale]

\* mantissas drawn by generate_value: the ends of the range and values inside it
SimpleValues == {-MaxSimpleValue, -1, 0, 1, 42, MaxSimpleValue}

\* the draws of the Decimal arm: precision in 1..76, scale in 0..precision, the mantissa
DecimalDraws ==
    UNION { { [fn |-> "generate_value", precision |-> precision, scale |-> scale,
               simple_value |-> simple_value] :
                 scale \in 0..precision, simple_value \in SimpleValues } :
            precision \in 1..MaxDecimalPrecision }

InitDecimal ==
    /\ ContextInit({ [rounds |-> 0, queries_per_round |-> 1, max_table_count |-> 1] })
    /\ AuxInit
    /\ arg_error_msg = <<>>
    /\ unit_call \in DecimalDraws
    /\ unit_ret = None
    /\ expr_gen = [max_level |-> 0, src_columns |-> {}]
    /\ expr_stack = <<>>
    /\ expr_last = NoReturn
    /\ TaskInit

\* generate_value(rng, &FuzzerDataType::Decimal, config) returns a value
GenerateValueDecimal ==
    /\ unit_ret = None
    /\ unit_ret' = Some([generated |-> generate_value_Decimal(unit_call.precision,
                                          unit_call.scale, unit_call.simple_value),
                         sql |-> None, scalar |-> None])
    /\ UNCHANGED <<unit_call, expr_vars>>
    /\ UNCHANGED <<run_vars, counter_vars, whitelist_vars, det_vars, task_vars>>

\* to_sql_string of the generated value
DecimalToSqlString ==
    /\ unit_ret # None
    /\ Unwrap(unit_ret).sql = None
    /\ unit_ret' = Some([Unwrap(unit_ret) EXCEPT !.sql =
            Some(GeneratedValue_to_sql_string_Decimal(Unwrap(unit_ret).generated.value))])
    /\ UNCHANGED <<unit_call, expr_vars>>
    /\ UNCHANGED <<run_vars, counter_vars, whitelist_vars, det_vars, task_vars>>

\* to_scalar_value of the generated value
DecimalToScalarValue ==
    /\ unit_ret # None
    /\ Unwrap(unit_ret).scalar = None
    /\ unit_ret' = Some([Unwrap(unit_ret) EXCEPT !.scalar =
            Some(GeneratedValue_to_scalar_value_Decimal(Unwrap(unit_ret).generated.value))])
    /\ UNCHANGED <<unit_call, expr_vars>>
    /\ UNCHANGED <<run_vars, counter_vars, whitelist_vars, det_vars, task_vars>>

NextDecimal ==
    \/ GenerateValueDecimal
    \/ DecimalToSqlString
    \/ DecimalToScalarValue

SpecDecimal == InitDecimal /\ [][NextDecimal]_vars

\* the digits of 10^n: n zeros below a one
PowerOfTen(n) == [i \in 1..(n + 1) |-> IF i = n + 1 THEN 1 ELSE 0]

\* C14: safe_power_of_10(scale) is 10^scale for scale in 0..30 and 10^30 for scale in
\* 31..76 and no product it computes leaves the signed 128-bit range; the mantissa
\* simple_value * safe_power_of_10(scale), simple_value in -99999..99999, stays in range.
C14_SafePowerOfTen ==
    unit_ret # None =>
        LET generated == Unwrap(unit_ret).generated
            scale_factor == generated.scale_factor
        IN  /\ unit_call.scale \in 0..30 =>
                  scale_factor.value = Signed(FALSE, PowerOfTen(unit_call.scale))
            /\ unit_call.scale \in 31..76 =>
                  scale_factor.value = Signed(FALSE, PowerOfTen(30))
            /\ ~scale_factor.overflow
            /\ ~generated.overflow
            /\ ~OverflowsI128(generated.value.value)

\* the largest scale with the largest mantissa
C14_Witness ==
    /\ unit_ret # None
    /\ unit_call.scale = 76
    /\ unit_call.simple_value = 99999
    /\ Unwrap(unit_ret).generated.value.value = Signed(FALSE, <<0,0,0,0,0,0,0,0,0,0,
                0,0,0,0,0,0,0,0,0,0, 0,0,0,0,0,0,0,0,0,0, 9,9,9,9,9>>)

\* d * 10^k for a natural d
ShiftDigits(d, k) == IF d = <<>> THEN <<>> ELSE [i \in 1..k |-> 0] \o d

\* the literal and the scalar denote the same number: as fractions,
\* int.frac / 1 = value / 10^scale, with the same sign unless both are zero
SameNumber(lit, sv) ==
    LET num == Normalize(Reverse(lit.int \o lit.frac))
    IN  /\ ShiftDigits(num, sv.scale) = ShiftDigits(sv.value.mag, Len(lit.frac))
        /\ num # <<>> => lit.neg = sv.value.neg

\* C16: for every generated Decimal value the SQL literal of to_sql_string and the scalar
\* of to_scalar_value denote the same number, value / 10^scale, and the literal has
\* exactly scale digits after the point.
C16_DecimalRenderingsAgree ==
    (unit_ret # None /\ Unwrap(unit_ret).sql # None /\ Unwrap(unit_ret).scalar # None) =>
        LET lit == Unwrap(Unwrap(unit_ret).sql)
            sv == Unwrap(Unwrap(unit_ret).scalar)
        IN  /\ Len(lit.frac) = unit_call.scale
            /\ sv.scale = unit_call.scale
            /\ SameNumber(lit, sv)

----------------------------------------------------------------------------
(* Bits of wide integers.  For the shifts and masks of the interval value  *)
(* an i128 is the sequence of its eight 16-bit limbs in two's complement,  *)
(* least significant first; bits 0-31 are limbs 1-2, bits 32-63 limbs 3-4, *)
(* bits 64-127 limbs 5-8.                                                  *)

LimbBase == 2^16

LimbMax == LimbBase - 1

\* `v as i128` of a signed integer of at most 32 bits: sign extension
AsI128(v) ==
    <<v % LimbBase, (v \div LimbBase) % LimbBase>> \o
    [i \in 1..6 |-> IF v < 0 THEN LimbMax ELSE 0]

\* x << (16 * k)
ShiftLeft(x, k) == [i \in 1..8 |-> IF i <= k THEN 0 ELSE x[i - k]]

\* x >> (16 * k) of a signed value: the sign fills the high bits
ShiftRight(x, k) ==
    [i \in 1..8 |-> IF i + k <= 8 THEN x[i + k]
                    ELSE IF x[8] >= LimbBase \div 2 THEN LimbMax ELSE 0]

\* x & mask for the mask with the low 16 * k bits set (0xFFFFFFFF: k = 2)
MaskLow(x, k) == [i \in 1..8 |-> IF i <= k THEN x[i] ELSE 0]

\* a | b of two limbs, bit by bit
RECURSIVE OrBits(_, _, _)
OrBits(a, b, n) ==
    IF n = 0 THEN 0
    ELSE (IF a % 2 = 1 \/ b % 2 = 1 THEN 1 ELSE 0) + 2 * OrBits(a \div 2, b \div 2, n - 1)

BitOr(x, y) == [i \in 1..8 |-> OrBits(x[i], y[i], 16)]

\* `x as i32`: the low 32 bits, two's complement
AsI32(x) ==
    IF x[2] >= LimbBase \div 2 THEN (x[2] - LimbBase) * LimbBase + x[1]
    ELSE x[2] * LimbBase + x[1]

\* d + k for a natural d and a small k >= 0
AddSmall(d, k) == Normalize(MulCarry(d, 1, k))

\* the natural whose limbs are l, least significant first
RECURSIVE LimbsToNat(_)
LimbsToNat(l) ==
    IF l = <<>> THEN <<>>
    ELSE AddSmall(MulSmall(LimbsToNat(Tail(l)), LimbBase), l[1])

\* `x as i64`: the low 64 bits, two's complement, as a signed number
AsI64(x) ==
    LET low == SubSeq(x, 1, 4)
    IN  IF low[4] >= LimbBase \div 2
        THEN Signed(TRUE, AddSmall(LimbsToNat([i \in 1..4 |-> LimbMax - low[i]]), 1))
        ELSE Signed(FALSE, LimbsToNat(low))

\* quotient and remainder of a natural by a small k > 0, from the most significant digit
RECURSIVE DivModSmall(_, _)
DivModSmall(d, k) ==
    IF d = <<>> THEN [q |-> <<>>, r |-> 0]
    ELSE LET high == DivModSmall(Tail(d), k)
             cur == high.r * 10 + d[1]
         IN  [q |-> Normalize(<<cur \div k>> \o high.q), r |-> cur % k]

\* the value of a natural that fits a model integer
RECURSIVE NatValue(_)
NatValue(d) == IF d = <<>> THEN 0 ELSE d[1] + 10 * NatValue(Tail(d))

----------------------------------------------------------------------------
(* Interval values (common/value_generator.rs): generate_value packs       *)
(* months, days and nanoseconds into one i128; to_sql_string and           *)
(* to_scalar_value unpack them.                                            *)

MaxIntervalMonths == 12           \* value_generator.rs:153  random_range(-12..=12)
MaxIntervalDays == 30             \* value_generator.rs:154  random_range(-30..=30)
MaxIntervalNanos == 1000000000    \* value_generator.rs:155  random_range(-1_000_000_000..=1_000_000_000)

\* generate_value, the IntervalMonthDayNano arm:
\* ((months as i128) << 32) | ((days as i128) & 0xFFFFFFFF) | ((nanoseconds as i128) << 64)
pack_interval(months, days, nanoseconds) ==
    BitOr(BitOr(ShiftLeft(AsI128(months), 2), MaskLow(AsI128(days), 2)),
          ShiftLeft(AsI128(nanoseconds), 4))

\* the unpacking of to_sql_string and of to_scalar_value (the same three lines):
\* months = ((v >> 32) & 0xFFFFFFFF) as i32, days = (v & 0xFFFFFFFF) as i32,
\* nanoseconds = ((v >> 64) & 0xFFFFFFFFFFFFFFFF) as i64
unpack_interval(v) ==
    [months |-> AsI32(MaskLow(ShiftRight(v, 2), 2)),
     days |-> AsI32(MaskLow(v, 2)),
     nanoseconds |-> AsI64(MaskLow(ShiftRight(v, 4), 4))]

\* GeneratedValue::to_scalar_value, the IntervalMonthDayNano arm:
\* IntervalMonthDayNano::new(months, days, nanoseconds)
GeneratedValue_to_scalar_value_Interval(v) == unpack_interval(v)

\* format!("{} unit{}", n, if n == 1 { "" } else { "s" })
Part(n, unit) == [n |-> n, unit |-> IF n = 1 THEN unit ELSE unit \o "s"]

PartIf(cond, n, unit) == IF cond THEN <<Part(n, unit)>> ELSE <<>>

\* GeneratedValue::to_sql_string, the IntervalMonthDayNano arm.  The divisions of abs_ns
\* by 3600 * 10^9, 60 * 10^9 and 10^9 are taken as: whole seconds first, then hours,
\* minutes and seconds of the whole seconds
GeneratedValue_to_sql_string_Interval(v) ==
    LET c == unpack_interval(v)
        abs_months == Abs(c.months)
        years == abs_months \div 12
        remaining_months == abs_months % 12
        abs_ns == c.nanoseconds.mag
        whole_seconds == IF Len(abs_ns) <= 9 THEN <<>> ELSE SubSeq(abs_ns, 10, Len(abs_ns))
        hours == NatValue(DivModSmall(whole_seconds, 3600).q)
        remaining == DivModSmall(whole_seconds, 3600).r
        minutes == remaining \div 60
        seconds == remaining % 60
        parts ==
            (IF c.months # 0
             THEN PartIf(years > 0, years, "year")
                  \o PartIf(remaining_months > 0, remaining_months, "month")
             ELSE <<>>)
            \o PartIf(c.days # 0, Abs(c.days), "day")
            \o (IF c.nanoseconds.mag # <<>>
                THEN PartIf(hours > 0, hours, "hour")
                     \o PartIf(minutes > 0, minutes, "minute")
                     \o PartIf(seconds > 0, seconds, "second")
                ELSE <<>>)
    IN  IF parts = <<>>
        THEN [text |-> "INTERVAL '0'", parts |-> <<>>]
        ELSE [text |-> "INTERVAL '{}'", parts |-> parts]

\* nanoseconds drawn by generate_value: the ends of the range and values inside it
NanosecondValues == {-MaxIntervalNanos, -1, 0, 1, MaxIntervalNanos - 1, MaxIntervalNanos}

IntervalDraws ==
    { [fn |-> "generate_value", months |-> months, days |-> days,
       nanoseconds |-> nanoseconds] :
         months \in (-MaxIntervalMonths)..MaxIntervalMonths,
         days \in (-MaxIntervalDays)..MaxIntervalDays,
         nanoseconds \in NanosecondValues }

InitInterval ==
    /\ ContextInit({ [rounds |-> 0, queries_per_round |-> 1, max_table_count |-> 1] })
    /\ AuxInit
    /\ arg_error_msg = <<>>
    /\ unit_call \in IntervalDraws
    /\ unit_ret = None
    /\ expr_gen = [max_level |-> 0, src_columns |-> {}]
    /\ expr_stack = <<>>
    /\ expr_last = NoReturn
    /\ TaskInit

\* generate_value(rng, &FuzzerDataType::IntervalMonthDayNano, config) returns a value
GenerateValueInterval ==
    /\ unit_ret = None
    /\ unit_ret' = Some([generated |-> pack_interval(unit_call.months, unit_call.days,
                                                     unit_call.nanoseconds),
                         sql |-> None, scalar |-> None])
    /\ UNCHANGED <<unit_call, expr_vars>>
    /\ UNCHANGED <<run_vars, counter_vars, whitelist_vars, det_vars, task_vars>>

\* to_sql_string of the generated value
IntervalToSqlString ==
    /\ unit_ret # None
    /\ Unwrap(unit_ret).sql = None
    /\ unit_ret' = Some([Unwrap(unit_ret) EXCEPT !.sql =
            Some(GeneratedValue_to_sql_string_Interval(Unwrap(unit_ret).generated))])
    /\ UNCHANGED <<unit_call, expr_vars>>
    /\ UNCHANGED <<run_vars, counter_vars, whitelist_vars, det_vars, task_vars>>

\* to_scalar_value of the generated value
IntervalToScalarValue ==
    /\ unit_ret # None
    /\ Unwrap(unit_ret).scalar = None
    /\ unit_ret' = Some([Unwrap(unit_ret) EXCEPT !.scalar =
            Some(GeneratedValue_to_scalar_value_Interval(Unwrap(unit_ret).generated))])
    /\ UNCHANGED <<unit_call, expr_vars>>
    /\ UNCHANGED <<run_vars, counter_vars, whitelist_vars, det_vars, task_vars>>

NextInterval ==
    \/ GenerateValueInterval
    \/ IntervalToSqlString
    \/ IntervalToScalarValue

SpecInterval == InitInterval /\ [][NextInterval]_vars

\* C15: for months in -12..12, days in -30..30 and nanoseconds in -10^9..10^9, packing
\* the three components as generate_value does and unpacking them as to_sql_string and
\* to_scalar_value do returns the same three components.
C15_IntervalPackUnpack ==
    (unit_ret # None /\ Unwrap(unit_ret).scalar # None) =>
        LET unpacked == Unwrap(Unwrap(unit_ret).scalar)
        IN  /\ unpacked.months = unit_call.months
            /\ unpacked.days = unit_call.days
            /\ unpacked.nanoseconds =
                  Signed(unit_call.nanoseconds < 0, NatDigits(Abs(unit_call.nanoseconds)))

\* the components an interval literal lists, in order: the counts that are not zero,
\* each with the singular unit name for 1 and the plural otherwise
ListedParts(counts) ==
    LET units == <<"year", "month", "day", "hour", "minute", "second">>
        part(i) == [n |-> counts[i], unit |-> IF counts[i] = 1 THEN units[i] ELSE units[i] \o "s"]
        RECURSIVE from(_)
        from(i) ==
            IF i > 6 THEN <<>>
            ELSE (IF counts[i] # 0 THEN <<part(i)>> ELSE <<>>) \o from(i + 1)
    IN  from(1)

\* C17: to_sql_string of an interval value is INTERVAL '0' exactly when its months, days
\* and nanoseconds are all zero; otherwise it lists exactly the components among years,
\* months, days, hours, minutes and seconds that are not zero, singular for 1 and plural
\* otherwise.
C17_IntervalLiteralListsComponents ==
    (unit_ret # None /\ Unwrap(unit_ret).sql # None) =>
        LET c == unpack_interval(Unwrap(unit_ret).generated)
            sql == Unwrap(Unwrap(unit_ret).sql)
            all_zero == c.months = 0 /\ c.days = 0 /\ c.nanoseconds.mag = <<>>
            abs_ns == c.nanoseconds.mag
            whole == IF Len(abs_ns) <= 9 THEN 0 ELSE NatValue(SubSeq(abs_ns, 10, Len(abs_ns)))
            counts == << Abs(c.months) \div 12, Abs(c.months) % 12, Abs(c.days),
                         whole \div 3600, (whole % 3600) \div 60, whole % 60 >>
        IN  /\ (sql.text = "INTERVAL '0'") <=> all_zero
            /\ ~all_zero => sql.parts = ListedParts(counts)

----------------------------------------------------------------------------
(* DatasetGenerator::generate_dataset (datasource_generator/               *)
(* dataset_generator.rs) called on a fresh context, with the schema and    *)
(* the row count it draws.                                                 *)

MaxColumnCountCfg == 2    \* runner_config.max_column_count ranges over 1..MaxColumnCountCfg
MaxRowCountCfg == 2       \* runner_config.max_row_count ranges over 0..MaxRowCountCfg

\* rng.random_range(low..high), the upper end excluded: the values it can return.
\* On an empty range random_range panics
RangeExclusive(low, high) == low..(high - 1)

\* generate_dataset: self.rng.random_range(0..cfg_max_row_count)
RowCountRange(cfg_max_row_count) == RangeExclusive(0, cfg_max_row_count)

\* generate_dataset: self.rng.random_range(1..=cfg_max_col_count)
ColumnCountRange(cfg_max_col_count) == 1..cfg_max_col_count

\* one call of generate_dataset, with register_table: the name is taken, the schema and
\* the row count are drawn, the batch is built and registered in the engine and in the
\* registry.  A draw from an empty range panics; building or registering may fail
GenerateDatasetCall ==
    /\ unit_call.fn = "generate_dataset"
    /\ unit_ret = None
    /\ LET next == next_table_name(current_table_idx)
           columns_range == ColumnCountRange(unit_call.max_column_count)
           rows_range == RowCountRange(unit_call.max_row_count)
       IN  /\ current_table_idx' = next.idx
           /\ IF columns_range = {} \/ rows_range = {}
              THEN /\ unit_ret' = Some([outcome |-> "panic", name |-> next.name,
                                        columns |-> <<>>, actual_row_count |-> 0])
                   /\ UNCHANGED <<df_ctx, registered_tables>>
              ELSE \E num_columns \in columns_range, actual_row_count \in rows_range,
                      engine_ok \in BOOLEAN :
                   \E columns \in [1..num_columns -> Range(get_available_data_types)] :
                      IF engine_ok /\ next.name \notin df_ctx.tables
                      THEN /\ df_ctx' = [df_ctx EXCEPT !.tables = @ \cup {next.name}]
                           /\ registered_tables' = registered_tables \cup {next.name}
                           /\ unit_ret' = Some([outcome |-> "Ok", name |-> next.name,
                                                columns |-> columns,
                                                actual_row_count |-> actual_row_count])
                      ELSE /\ unit_ret' = Some([outcome |-> "Err", name |-> next.name,
                                                columns |-> <<>>, actual_row_count |-> 0])
                           /\ UNCHANGED <<df_ctx, registered_tables>>
    /\ UNCHANGED <<runner_config, fuzzer_stats, pc, round, datasets_vars, views_vars,
                   query_i, test_vars, run_result, last_stmt, last_test, attempted,
                   round_registered, resets>>
    /\ UNCHANGED <<unit_call, expr_vars>>
    /\ UNCHANGED <<counter_vars, whitelist_vars, det_vars, task_vars>>

InitDataset ==
    /\ ContextInit({ [rounds |-> 0, queries_per_round |-> 1, max_table_count |-> 1] })
    /\ AuxInit
    /\ arg_error_msg = <<>>
    /\ unit_call \in { [fn |-> "generate_dataset", max_column_count |-> c,
                        max_row_count |-> r] :
                          c \in 1..MaxColumnCountCfg, r \in 0..MaxRowCountCfg }
    /\ unit_ret = None
    /\ expr_gen = [max_level |-> 0, src_columns |-> {}]
    /\ expr_stack = <<>>
    /\ expr_last = NoReturn
    /\ TaskInit

NextDataset == GenerateDatasetCall

SpecDataset == InitDataset /\ [][NextDataset]_vars

\* C18: for every configuration with max_column_count >= 1 and max_row_count >= 0 and
\* every draw, generate_dataset creates a table (it does not panic) whose column count is
\* in 1..max_column_count and whose row count is in 0..max_row_count.
C18_DatasetWithinConfiguredCounts ==
    (unit_call.fn = "generate_dataset" /\ unit_ret # None) =>
        LET ret == Unwrap(unit_ret)
        IN  /\ ret.outcome # "panic"
            /\ ret.outcome = "Ok" =>
                  /\ Len(ret.columns) \in 1..unit_call.max_column_count
                  /\ ret.actual_row_count \in 0..unit_call.max_row_count

\* ---------------------------------------------------------------------------------
\* Command line and runner configuration (cli/mod.rs, fuzz_context/mod.rs)
\* ---------------------------------------------------------------------------------

\* #[arg(short, long, default_value_t = 310104)] pub seed: u64
CliDefaultSeed == 310104

\* the value from_cli compares cli.seed with
SeedSentinel == 42

\* a seed that is neither the sentinel nor the command line's default
OtherSeed == 7

\* the value the Option-typed flags carry when given
FlagValue == 1

SeedValues == { OtherSeed, SeedSentinel, CliDefaultSeed }

\* RunnerConfig::default(), the options that have a command-line flag
RunnerConfig_default ==
    [seed |-> 42, rounds |-> 3, queries_per_round |-> 10, timeout_seconds |-> 2,
     log_path |-> Some("logs")]

\* RunnerConfig::from_file: toml::from_str of the file's content; every field but the
\* Option-typed log_path is required
ConfigFiles ==
    { [seed |-> s, rounds |-> 5, queries_per_round |-> 6, timeout_seconds |-> 8,
       log_path |-> lp] : s \in SeedValues, lp \in { None, Some("file_logs") } }

\* the command lines: for every flag, not given (None) or given with a value
CommandLines ==
    { [fn |-> "from_cli", config |-> c, seed |-> s, rounds |-> r,
       queries_per_round |-> q, timeout |-> t, log_path |-> l] :
         c \in { None } \cup { Some(f) : f \in ConfigFiles },
         s \in { None } \cup { Some(v) : v \in SeedValues },
         r \in { None, Some(FlagValue) },
         q \in { None, Some(FlagValue) },
         t \in { None, Some(FlagValue) },
         l \in { None, Some("cli_logs") } }

\* Cli::parse(): seed is a plain u64 with a default value, the other flags are Options
Cli_parse(args) ==
    [config |-> args.config,
     seed |-> IF IsSome(args.seed) THEN Unwrap(args.seed) ELSE CliDefaultSeed,
     rounds |-> args.rounds,
     queries_per_round |-> args.queries_per_round,
     timeout |-> args.timeout,
     log_path |-> args.log_path]

\* RunnerConfig::from_cli(cli)
RunnerConfig_from_cli(cli) ==
    LET config == IF IsSome(cli.config) THEN Unwrap(cli.config) ELSE RunnerConfig_default
    IN  [seed |-> IF cli.seed # SeedSentinel THEN cli.seed ELSE config.seed,
         rounds |-> IF IsSome(cli.rounds) THEN Unwrap(cli.rounds) ELSE config.rounds,
         queries_per_round |-> IF IsSome(cli.queries_per_round)
                               THEN Unwrap(cli.queries_per_round)
                               ELSE config.queries_per_round,
         timeout_seconds |-> IF IsSome(cli.timeout) THEN Unwrap(cli.timeout)
                             ELSE config.timeout_seconds,
         log_path |-> IF IsSome(cli.log_path) THEN Some(Unwrap(cli.log_path))
                      ELSE config.log_path]

InitCli ==
    /\ ContextInit({ [rounds |-> 0, queries_per_round |-> 1, max_table_count |-> 1] })
    /\ AuxInit
    /\ arg_error_msg = <<>>
    /\ unit_call \in CommandLines
    /\ unit_ret = None
    /\ expr_gen = [max_level |-> 0, src_columns |-> {}]
    /\ expr_stack = <<>>
    /\ expr_last = NoReturn
    /\ TaskInit

\* main: let cli = Cli::parse();
CliParse ==
    /\ unit_call.fn = "from_cli"
    /\ unit_ret = None
    /\ unit_ret' = Some([cli |-> Cli_parse(unit_call), runner_config |-> None])
    /\ UNCHANGED <<unit_call, expr_vars>>
    /\ UNCHANGED <<run_vars, counter_vars, whitelist_vars, det_vars, task_vars>>

\* main: let runner_config = RunnerConfig::from_cli(&cli)?;
FromCli ==
    /\ unit_call.fn = "from_cli"
    /\ unit_ret # None
    /\ Unwrap(unit_ret).runner_config = None
    /\ unit_ret' = Some([Unwrap(unit_ret) EXCEPT !.runner_config =
                            Some(RunnerConfig_from_cli(Unwrap(unit_ret).cli))])
    /\ UNCHANGED <<unit_call, expr_vars>>
    /\ UNCHANGED <<run_vars, counter_vars, whitelist_vars, det_vars, task_vars>>

NextCli ==
    \/ CliParse
    \/ FromCli

SpecCli == InitCli /\ [][NextCli]_vars

\* the value the stated precedence gives an option: the flag's value when the flag was
\* given, else the config file's value when a file was given, else the default
Precedence(flag, field) ==
    IF IsSome(flag) THEN Unwrap(flag)
    ELSE IF IsSome(unit_call.config) THEN Unwrap(unit_call.config)[field]
    ELSE RunnerConfig_default[field]

\* C19: for seed, rounds, queries_per_round, timeout and log_path the effective value is
\* the command-line value when the flag was given, otherwise the config file's value when a
\* file was given, otherwise the default: an explicitly given seed always overrides the
\* file's seed and a flag that was not given never overrides the file.
C19_CliPrecedence ==
    (unit_call.fn = "from_cli" /\ unit_ret # None
        /\ Unwrap(unit_ret).runner_config # None) =>
        LET config == Unwrap(Unwrap(unit_ret).runner_config)
        IN  /\ config.seed = Precedence(unit_call.seed, "seed")
            /\ config.rounds = Precedence(unit_call.rounds, "rounds")
            /\ config.queries_per_round
                  = Precedence(unit_call.queries_per_round, "queries_per_round")
            /\ config.timeout_seconds = Precedence(unit_call.timeout, "timeout_seconds")
            /\ config.log_path
                  = ( IF IsSome(unit_call.log_path) THEN unit_call.log_path
                      ELSE IF IsSome(unit_call.config)
                           THEN Unwrap(unit_call.config).log_path
                      ELSE RunnerConfig_default.log_path )

\* ---------------------------------------------------------------------------------
\* The error report of the no-crash oracle (oracle/oracle_impl_no_crash.rs)
\* ---------------------------------------------------------------------------------

\* the longest result list handed to create_error_report
MaxResults == 2

\* SQL texts of the queries
SqlTexts == { "SELECT * FROM t0", "SELECT * FROM t1" }

\* the QueryContexts: with the description of the no-crash oracle, or without one
QueryContexts ==
    { QueryContext_with_description(q, 0, NoCrashDescription) : q \in SqlTexts }
    \cup { QueryContext_new(q, 0) : q \in SqlTexts }

\* QueryExecutionResult { query_context, result }, over every outcome of a query
QueryExecutionResults ==
    { [query_context |-> qc, result |-> execute_query_with_timeout(t).result] :
         qc \in QueryContexts, t \in TimeoutResults }

\* the calls: the result lists of up to MaxResults results, the empty one included
ErrorReportCalls ==
    { [fn |-> "create_error_report", results |-> rs] :
         rs \in UNION { [1..n -> QueryExecutionResults] : n \in 0..MaxResults } }

InitReport ==
    /\ ContextInit({ [rounds |-> 0, queries_per_round |-> 1, max_table_count |-> 1] })
    /\ AuxInit
    /\ arg_error_msg = <<>>
    /\ unit_call \in ErrorReportCalls
    /\ unit_ret = None
    /\ expr_gen = [max_level |-> 0, src_columns |-> {}]
    /\ expr_stack = <<>>
    /\ expr_last = NoReturn
    /\ TaskInit

\* oracle.create_error_report(&results) returns Ok(report)
CreateErrorReport ==
    /\ unit_call.fn = "create_error_report"
    /\ unit_ret = None
    /\ unit_ret' = Some([outcome |-> "Ok",
                         report |-> create_error_report(unit_call.results)])
    /\ UNCHANGED <<unit_call, expr_vars>>
    /\ UNCHANGED <<run_vars, counter_vars, whitelist_vars, det_vars, task_vars>>

NextReport == CreateErrorReport

SpecReport == InitReport /\ [][NextReport]_vars

\* C20: create_error_report of the no-crash oracle on a non-empty result list returns a
\* report that contains the SQL text of the first query of the list and its context
\* description and, when that query failed, its error detail.
C20_ReportNamesFirstQuery ==
    (unit_call.fn = "create_error_report" /\ unit_ret # None
        /\ unit_call.results # <<>>) =>
        LET ret == Unwrap(unit_ret)
            first == unit_call.results[1]
            query_context == first.query_context
        IN  /\ ret.outcome = "Ok"
            /\ ret.report.query = Some(query_context.query)
            /\ IsSome(ret.report.context)
            /\ StrContains(Unwrap(ret.report.context), <<query_context.query>>)
            /\ IsSome(query_context.context_description) =>
                  StrContains(Unwrap(ret.report.context),
                           <<Unwrap(query_context.context_description)>>)
            /\ ~first.result.ok => ret.report.error_details = Some(first.result.msg)

\* a report of two results whose first query failed and whose second, another query
\* without a description, succeeded
C20_Witness ==
    /\ unit_call.fn = "create_error_report"
    /\ unit_ret # None
    /\ Len(unit_call.results) = 2
    /\ ~unit_call.results[1].result.ok
    /\ unit_call.results[2].result.ok
    /\ unit_call.results[1].query_context.query # unit_call.results[2].query_context.query
    /\ IsSome(unit_call.results[1].query_context.context_description)
    /\ ~IsSome(unit_call.results[2].query_context.context_description)
    /\ Unwrap(unit_ret).report.error_details = Some(unit_call.results[1].result.msg)

\* ---------------------------------------------------------------------------------
\* Properties of the run loop (cli/runner.rs)
\* ---------------------------------------------------------------------------------

\* the test in progress: the first executed queries of the group ran once each, in group
\* order, and each was classified once, right after it ran; the others did not run yet
ExecutedInOrder ==
    /\ query_group # <<>>
    /\ Len(execution_results) <= Len(query_group)
    /\ Len(exec_log) = Len(execution_results)
    /\ Len(engine_calls) = Len(query_group)
    /\ \A k \in 1..Len(query_group) :
          IF k <= Len(execution_results)
          THEN /\ engine_calls[k] = 1
               /\ execution_results[k].query_context = query_group[k]
               /\ exec_log[k].classified = Classify(execution_results[k].result)
               /\ (exec_log[k].classified = "no_error") <=> execution_results[k].result.ok
          ELSE engine_calls[k] = 0

\* the step of an oracle test follows the order generate, execute, validate, report
StepsInOrder ==
    /\ pc = "execute_oracle_test" =>
          /\ pc' \in {"execute_single_query", "execute_oracle_test", "round_end"}
          /\ pc' = "execute_single_query" =>
                query_group' # <<>> /\ execution_results' = <<>>
          /\ pc' # "execute_single_query" =>
                last_test'.validated = 0 /\ last_test'.report = None
    /\ pc = "execute_single_query" =>
          /\ pc' \in {"execute_single_query", "validate_consistency"}
          /\ query_group' = query_group
          /\ SubSeq(execution_results', 1, Len(execution_results)) = execution_results
          /\ Len(execution_results') = Len(execution_results) + 1
          /\ Len(exec_log') = Len(exec_log) + 1
          /\ last_test'.validated = 0 /\ last_test'.report = None
    /\ pc' = "validate_consistency" =>
          /\ pc = "execute_single_query"
          /\ Len(execution_results') = Len(query_group')
    /\ pc = "validate_consistency" =>
          /\ pc' \in {"execute_oracle_test", "round_end"}
          /\ last_test'.validated = 1
          /\ last_test'.results = execution_results
          /\ last_test'.report # None => validate_consistency(execution_results) = "Err"
    /\ last_test'.validated = 1 => pc = "validate_consistency"

C22_ViewsReadBaseTablesOnly ==
    (last_stmt.caller = "view" /\ last_stmt.ok) =>
        \A k \in 1..Len(last_stmt.from_list) : IsBaseTable(last_stmt.from_list[k])

\* ---------------------------------------------------------------------------------
\* Locks and await points of the driving task (fuzz_context/ctx_observability.rs,
\* fuzz_context/mod.rs, cli/runner.rs).  A guard is held from the lock call to the end
\* of the guard's scope or its drop; at an await the task may be suspended.
\* ---------------------------------------------------------------------------------

\* the registry sizes the operations are followed on
MaxLockTables == 3

RegistryRead == "registered_tables.read"
RegistryWrite == "registered_tables.write"
SessionRead == "df_ctx.read"
StatsLock == "fuzzer_stats.lock"

\* the guards of the table registry and of the session handle
RegistryAndSessionGuards == { RegistryRead, RegistryWrite, SessionRead }

\* the async operations of the driving task, on a registry of the given size
LockCalls ==
    { [fn |-> f, tables |-> n] :
        f \in {"display_all_tables", "generate_views_for_round", "execute_single_query"},
        n \in 0..MaxLockTables }

InitLocks ==
    /\ ContextInit({ [rounds |-> 0, queries_per_round |-> 1, max_table_count |-> 1] })
    /\ AuxInit
    /\ arg_error_msg = <<>>
    /\ unit_call \in LockCalls
    /\ unit_ret = None
    /\ expr_gen = [max_level |-> 0, src_columns |-> {}]
    /\ expr_stack = <<>>
    /\ expr_last = NoReturn
    /\ task = [NoTask EXCEPT !.at = "start"]
    /\ tui = NoTui

TaskAt(fn, at) == unit_call.fn = fn /\ task.at = at

OnlyTaskMoves ==
    UNCHANGED <<run_vars, counter_vars, whitelist_vars, det_vars, unit_vars, expr_vars, tui>>

\* the task is suspended at the await of the given position, holding what it holds
Suspended(at) == [task EXCEPT !.at = at, !.awaiting = TRUE]

\* the task goes on, not suspended, at the given position
Resumed(at) == [task EXCEPT !.at = at, !.awaiting = FALSE]

\* the loop of the operation goes to its next iteration
NextIteration == [task EXCEPT !.at = "for", !.i = @ + 1, !.awaiting = FALSE]

\* display_all_tables: let tables = ctx.runtime_context.registered_tables.read().unwrap();
DisplayReadRegistry ==
    /\ TaskAt("display_all_tables", "start")
    /\ task' = [task EXCEPT !.at = "for", !.n = unit_call.tables,
                            !.guards = @ \cup {RegistryRead}]
    /\ OnlyTaskMoves

\* display_all_tables, the loop body up to df_ctx.sql(&sql).await: the session handle
\* is cloned, the guard tables is still in scope
DisplaySqlAwait ==
    /\ TaskAt("display_all_tables", "for")
    /\ task.i < task.n
    /\ task' = Suspended("sql.await")
    /\ OnlyTaskMoves

\* display_all_tables: df_ctx.sql answers; on Ok the task awaits df.collect()
DisplaySqlReturns ==
    /\ TaskAt("display_all_tables", "sql.await")
    /\ \E ok \in BOOLEAN :
          task' = IF ok THEN Suspended("collect.await") ELSE NextIteration
    /\ OnlyTaskMoves

\* display_all_tables: df.collect() answers, the batches or the error are printed
DisplayCollectReturns ==
    /\ TaskAt("display_all_tables", "collect.await")
    /\ task' = NextIteration
    /\ OnlyTaskMoves

\* display_all_tables: the loop ends, Ok(()) is returned and tables is dropped
DisplayReturn ==
    /\ TaskAt("display_all_tables", "for")
    /\ task.i = task.n
    /\ task' = [task EXCEPT !.at = "returned", !.guards = {}]
    /\ OnlyTaskMoves

\* generate_views_for_round: let tables_lock = ...registered_tables.read().unwrap();
ViewsReadRegistry ==
    /\ TaskAt("generate_views_for_round", "start")
    /\ task' = [task EXCEPT !.at = "snapshot", !.guards = @ \cup {RegistryRead}]
    /\ OnlyTaskMoves

\* generate_views_for_round: the values are cloned, drop(tables_lock); return on an
\* empty snapshot, else draw num_views
ViewsDropLock ==
    /\ TaskAt("generate_views_for_round", "snapshot")
    /\ IF unit_call.tables = 0
       THEN task' = [task EXCEPT !.at = "returned", !.guards = {}]
       ELSE \E drawn \in 1..Min(MaxViewsPerRound, unit_call.tables) :
               task' = [task EXCEPT !.at = "for", !.n = drawn, !.guards = {}]
    /\ OnlyTaskMoves

\* generate_view_sql: pick_src_tables of the builder reads the registry under the read
\* lock; it is a synchronous function
ViewsPickSrcTables ==
    /\ TaskAt("generate_views_for_round", "for")
    /\ task.i < task.n
    /\ task' = [task EXCEPT !.at = "pick_src_tables", !.guards = @ \cup {RegistryRead}]
    /\ OnlyTaskMoves

\* generate_view_sql returns: the guard of pick_src_tables went out of scope; on Err the
\* loop continues, on Ok create_and_register_view is called
ViewsSqlGenerated ==
    /\ TaskAt("generate_views_for_round", "pick_src_tables")
    /\ \E ok \in BOOLEAN :
          task' = IF ok
                  THEN [task EXCEPT !.at = "create_and_register_view", !.guards = {}]
                  ELSE [NextIteration EXCEPT !.guards = {}]
    /\ OnlyTaskMoves

\* RuntimeContext::get_session_context: let df_ctx = self.df_ctx.read().unwrap();
GetSessionContext ==
    /\ TaskAt("generate_views_for_round", "create_and_register_view")
    /\ task' = [task EXCEPT !.at = "get_session_context", !.guards = @ \cup {SessionRead}]
    /\ OnlyTaskMoves

\* get_session_context returns Arc::clone(&*df_ctx), its guard is dropped; then
\* create_and_register_view awaits df_ctx.sql(&create_view_sql)
CreateViewAwait ==
    /\ TaskAt("generate_views_for_round", "get_session_context")
    /\ task' = [Suspended("create_view.sql.await") EXCEPT !.guards = task.guards \ {SessionRead}]
    /\ OnlyTaskMoves

\* the awaits of create_and_register_view answer in turn: CREATE VIEW is planned, then
\* collected, then the schema query is planned; an Err returns from the function
CreateViewAnswers ==
    /\ unit_call.fn = "generate_views_for_round"
    /\ task.awaiting
    /\ \E ok \in BOOLEAN :
          task' = IF ~ok THEN NextIteration
                  ELSE IF task.at = "create_view.sql.await"
                       THEN Suspended("create_view.collect.await")
                  ELSE IF task.at = "create_view.collect.await"
                       THEN Suspended("schema.sql.await")
                  ELSE [Resumed("insert") EXCEPT !.guards = @ \cup {RegistryWrite}]
    /\ OnlyTaskMoves

\* create_and_register_view: registered_tables.write().unwrap().insert(...); Ok(())
ViewInserted ==
    /\ TaskAt("generate_views_for_round", "insert")
    /\ task' = [NextIteration EXCEPT !.guards = task.guards \ {RegistryWrite}]
    /\ OnlyTaskMoves

\* generate_views_for_round: the loop ends, Ok(())
ViewsReturn ==
    /\ TaskAt("generate_views_for_round", "for")
    /\ task.i = task.n
    /\ task' = [task EXCEPT !.at = "returned"]
    /\ OnlyTaskMoves

\* execute_query_with_timeout: tokio::time::timeout(...).await on the session handle
\* the QueryContext holds
QueryTimeoutAwait ==
    /\ TaskAt("execute_single_query", "start")
    /\ task' = Suspended("timeout.await")
    /\ OnlyTaskMoves

\* execute_single_query after the await: record_query_with_time locks the statistics
QueryRecordLocks ==
    /\ TaskAt("execute_single_query", "timeout.await")
    /\ task' = [Resumed("record_query_with_time") EXCEPT !.guards = @ \cup {StatsLock}]
    /\ OnlyTaskMoves

\* record_query_with_time returns and its guard is dropped; outcome.result is returned
QueryReturn ==
    /\ TaskAt("execute_single_query", "record_query_with_time")
    /\ task' = [task EXCEPT !.at = "returned", !.guards = task.guards \ {StatsLock}]
    /\ OnlyTaskMoves

NextLocks ==
    \/ DisplayReadRegistry
    \/ DisplaySqlAwait
    \/ DisplaySqlReturns
    \/ DisplayCollectReturns
    \/ DisplayReturn
    \/ ViewsReadRegistry
    \/ ViewsDropLock
    \/ ViewsPickSrcTables
    \/ ViewsSqlGenerated
    \/ GetSessionContext
    \/ CreateViewAwait
    \/ CreateViewAnswers
    \/ ViewInserted
    \/ ViewsReturn
    \/ QueryTimeoutAwait
    \/ QueryRecordLocks
    \/ QueryReturn

SpecLocks == InitLocks /\ [][NextLocks]_vars

\* C23: no lock on the table registry or on the session handle is held while the driving
\* task is suspended at an await point: every asynchronous operation (query execution,
\* view creation, table display) releases the lock before it awaits the engine.
C23_NoGuardAcrossAwait ==
    task.awaiting => task.guards \cap RegistryAndSessionGuards = {}

\* ---------------------------------------------------------------------------------
\* The live-display task (cli/tui.rs), spawned by main next to run_fuzzer
\* ---------------------------------------------------------------------------------

\* the configurations the run is followed with next to the display task
TuiConfigs == { c \in Configs : c.max_table_count = 1 /\ c.rounds * c.queries_per_round <= 1 }

\* what event::poll and event::read give handle_events: no event within the 100 ms, a
\* press of q, a press of another key, or an event that is not a key press
TuiEvents == { "none", "press_q", "press_other", "not_a_press" }

get_tui_stats_CountsQuery(stats) ==
    [stats |-> [stats EXCEPT !.queries_executed = @ + 1],
     tui_stats |-> [stats EXCEPT !.queries_executed = @ + 1]]

\* get_tui_stats: under the mutex, FuzzerStats::get_tui_stats(&self) copies the
\* counters into a TuiStats (the rates and times derived from the clock are left out)
get_tui_stats(stats) == [stats |-> stats, tui_stats |-> stats]

\* TuiApp::handle_key_event: q sets exit, any other key does nothing
handle_key_event(exit, event) == IF event = "press_q" THEN TRUE ELSE exit

\* main: TuiApp::new(fuzzer_stats) in the spawned task, not yet scheduled
TuiApp_new == [pc |-> "init", exit |-> FALSE, stats |-> None]

InitTui ==
    /\ ContextInit(TuiConfigs)
    /\ AuxInit
    /\ arg_error_msg = <<>>
    /\ unit_call = NoCall
    /\ unit_ret = None
    /\ expr_gen = [max_level |-> 0, src_columns |-> {}]
    /\ expr_stack = <<>>
    /\ expr_last = NoReturn
    /\ task = NoTask
    /\ tui = TuiApp_new

\* what a step of the display task leaves alone besides the statistics mutex it locks
TuiLeavesAlone ==
    /\ UNCHANGED <<runner_config, ctx_vars, pc, round, datasets_vars, views_vars,
                   query_i, test_vars, run_result, last_stmt, last_test, attempted,
                   round_registered, resets>>
    /\ UNCHANGED <<counter_vars, whitelist_vars, det_vars, unit_vars, expr_vars, task>>

\* the spawned task starts: let mut terminal = init();
TuiStart ==
    /\ tui.pc = "init"
    /\ tui' = [tui EXCEPT !.pc = "draw"]
    /\ UNCHANGED fuzzer_stats
    /\ TuiLeavesAlone

\* TuiApp::run, "while !self.exit { terminal.draw(...)?": render reads the statistics
\* with get_tui_stats; an io error of the terminal ends run
TuiDraw ==
    /\ tui.pc = "draw"
    /\ ~tui.exit
    /\ LET r == get_tui_stats(fuzzer_stats)
       IN  /\ fuzzer_stats' = r.stats
           /\ \E io_ok \in BOOLEAN :
                 tui' = IF io_ok
                        THEN [tui EXCEPT !.pc = "handle_events", !.stats = Some(r.tui_stats)]
                        ELSE [tui EXCEPT !.pc = "returned"]
    /\ TuiLeavesAlone

\* TuiApp::handle_events: poll for 100 ms, read the event, handle a key press
TuiHandleEvents ==
    /\ tui.pc = "handle_events"
    /\ \E event \in TuiEvents :
          tui' = [tui EXCEPT !.pc = "draw", !.exit = handle_key_event(tui.exit, event)]
    /\ UNCHANGED fuzzer_stats
    /\ TuiLeavesAlone

\* TuiApp::run returns Ok(()) once exit is set; the task calls restore() and ends
TuiReturn ==
    /\ tui.pc = "draw"
    /\ tui.exit
    /\ tui' = [tui EXCEPT !.pc = "returned"]
    /\ UNCHANGED fuzzer_stats
    /\ TuiLeavesAlone

NextTui ==
    \/ Next
    \/ TuiStart
    \/ TuiDraw
    \/ TuiHandleEvents
    \/ TuiReturn

\* where the driving task is: the position in run_fuzzer and its loop variables
RunPosition == <<pc, round, table_i, view_i, query_i>>

RunPcs ==
    { "generate_datasets", "generate_dataset", "generate_views", "generate_view",
      "execute_oracle_test", "execute_single_query", "validate_consistency",
      "round_end", "done" }

\* a step of the driving task on its position: it has not returned, and goes to a
\* position of run_fuzzer, its loop variables kept, stepped or set back
RunLoopStep ==
    /\ pc # "done"
    /\ pc' \in RunPcs
    /\ round' \in {round, round + 1}
    /\ table_i' \in {0, table_i, table_i + 1}
    /\ view_i' \in {0, view_i, view_i + 1}
    /\ query_i' \in {0, query_i, query_i + 1}

\* the driving task is scheduled whenever it can step, and the engine calls it awaits
\* return: a step may change its position (RunLoopStep) until run_fuzzer returned, so
\* its position does not stay the same forever.  Every step of Next changes
\* RunPosition and is a RunLoopStep (RunLoopMoves), and Next is enabled until
\* run_fuzzer returned (RunLoopCanStep), so this is weak fairness of Next.
RunLoopFairness == WF_RunPosition(RunLoopStep)

\* every step of the driving task moves its position, no other step does, and the
\* driving task can step in every state in which run_fuzzer has not returned
RunLoopMoves ==
    /\ RunPosition' # RunPosition <=> <<run_vars>>' # <<run_vars>>
    /\ RunPosition' # RunPosition => RunLoopStep

RunLoopCanStep == pc # "done" => ENABLED Next

SpecTui == InitTui /\ [][NextTui]_vars /\ RunLoopFairness

\* a step of the display task changes neither the statistics counters nor the table
\* registry, the name counter or the engine session, nor where the run loop is
TuiStepReadsOnly ==
    tui' # tui =>
        /\ UNCHANGED <<fuzzer_stats, registered_tables, current_table_idx, df_ctx>>
        /\ UNCHANGED <<pc, round, query_i, run_result>>

\* C24: the live-display task never influences fuzzing: under every interleaving with
\* the run loop no step of it changes the statistics counters, the table registry, the
\* name counter or the engine session, and after the exit key only the display loop
\* stops: the run loop still completes all remaining rounds and queries.
C24_DisplayNeverInfluencesFuzzing ==
    /\ [][TuiStepReadsOnly]_vars
    /\ [][RunLoopMoves]_vars
    /\ [](tui.exit => RunLoopCanStep)
    /\ [](pc = "round_end" => attempted.tests = runner_config.queries_per_round)
    /\ [](pc = "done" =>
            /\ run_result = "Ok"
            /\ round = runner_config.rounds
            /\ fuzzer_stats.rounds_completed = runner_config.rounds)
    /\ (tui.exit ~> pc = "done")
    /\ (tui.pc = "returned" ~> pc = "done")

\* the exit key was pressed and the display loop ended before the query of the round
\* ran (the statistics drawn last count no query), and run_fuzzer then ran the query,
\* completed the round and returned
C24_Witness ==
    /\ tui.pc = "returned"
    /\ tui.exit
    /\ tui.stats # None
    /\ Unwrap(tui.stats).queries_executed = 0
    /\ pc = "done"
    /\ fuzzer_stats.queries_executed = 1
    /\ fuzzer_stats.rounds_completed = 1

\* ---------------------------------------------------------------------------------
\* The compiled-regex cache on other pattern lists (cli/error_whitelist.rs)
\* ---------------------------------------------------------------------------------

\* the longest pattern list and the longest message taken
MaxPatterns == 3
MaxCacheMsgLen == 3

\* patterns a list is made of: a Contains pattern, a regex that compiles, and two regex
\* sources that Regex::new rejects
CachePatterns ==
    { Contains(<<Other>>), RegexMatch(<<Other, AnyPlus>>),
      RegexMatch(<<BadRegex, Other>>), RegexMatch(<<BadRegex>>) }

CacheMessages == UNION { [1..k -> {Other, BadRegex, Newline}] : k \in 0..MaxCacheMsgLen }

\* is_error_whitelisted(error_msg) with the given list as ERROR_PATTERNS
CacheCalls ==
    { [fn |-> "is_error_whitelisted", patterns |-> ps, error_msg |-> m] :
        ps \in UNION { [1..n -> CachePatterns] : n \in 0..MaxPatterns },
        m \in CacheMessages }

InitCache ==
    /\ ContextInit({ [rounds |-> 0, queries_per_round |-> 1, max_table_count |-> 1] })
    /\ AuxInit
    /\ arg_error_msg = <<>>
    /\ unit_call \in CacheCalls
    /\ unit_ret = None
    /\ expr_gen = [max_level |-> 0, src_columns |-> {}]
    /\ expr_stack = <<>>
    /\ expr_last = NoReturn
    /\ TaskInit

\* the first access of COMPILED_REGEXES runs its LazyLock initializer
CompileRegexes ==
    /\ unit_call.fn = "is_error_whitelisted"
    /\ unit_ret = None
    /\ unit_ret' = Some([compiled |-> CompileAll(unit_call.patterns),
                         whitelisted |-> None])
    /\ UNCHANGED <<unit_call, expr_vars>>
    /\ UNCHANGED <<run_vars, counter_vars, whitelist_vars, det_vars, task_vars>>

\* is_error_whitelisted returns: the loop over the patterns with the cache
IsErrorWhitelistedReturns ==
    /\ unit_call.fn = "is_error_whitelisted"
    /\ unit_ret # None
    /\ Unwrap(unit_ret).whitelisted = None
    /\ unit_ret' = Some([Unwrap(unit_ret) EXCEPT !.whitelisted =
            Some(WhitelistedFrom(unit_call.patterns, Unwrap(unit_ret).compiled,
                                 unit_call.error_msg, 1))])
    /\ UNCHANGED <<unit_call, expr_vars>>
    /\ UNCHANGED <<run_vars, counter_vars, whitelist_vars, det_vars, task_vars>>

NextCache ==
    \/ CompileRegexes
    \/ IsErrorWhitelistedReturns

SpecCache == InitCache /\ [][NextCache]_vars

\* the regex source of the pattern is one Regex::new accepts
Compiles(pattern) == pattern.type = "RegexMatch" /\ BadRegex \notin Range(pattern.str)

\* the pattern matches the message: a Contains pattern as a part of it, a RegexMatch
\* pattern when its source compiles and the regex finds a match
PatternMatches(pattern, msg) ==
    IF pattern.type = "Contains" THEN ContainsMatches(pattern.str, msg)
    ELSE Compiles(pattern) /\ RegexFinds(pattern.str, msg)

\* C25: the compiled-regex cache has exactly one entry per configured pattern, at the
\* index of the pattern; a regex pattern that fails to compile gets no compiled entry,
\* never matches a message, and is_error_whitelisted returns (it does not panic) on it.
C25_CacheAlignedWithPatterns ==
    /\ Len(COMPILED_REGEXES) = Len(ERROR_PATTERNS)
    /\ \A i \in 1..Len(ERROR_PATTERNS) :
          COMPILED_REGEXES[i] # None <=> ERROR_PATTERNS[i].type = "RegexMatch"
    /\ (unit_call.fn = "is_error_whitelisted" /\ unit_ret # None) =>
        LET patterns == unit_call.patterns
            compiled == Unwrap(unit_ret).compiled
        IN  /\ Len(compiled) = Len(patterns)
            /\ \A i \in 1..Len(patterns) :
                  IF Compiles(patterns[i])
                  THEN compiled[i] = Some(patterns[i].str)
                  ELSE compiled[i] = None
            /\ ENABLED IsErrorWhitelistedReturns \/ Unwrap(unit_ret).whitelisted # None
            /\ Unwrap(unit_ret).whitelisted # None =>
                  ( Unwrap(Unwrap(unit_ret).whitelisted)
                      <=> \E i \in 1..Len(patterns) :
                             PatternMatches(patterns[i], unit_call.error_msg) )

\* a list with a regex that does not compile between two patterns, and a message that
\* holds the text of the rejected source: the call returned false
C25_Witness ==
    /\ unit_call.fn = "is_error_whitelisted"
    /\ unit_ret # None
    /\ Len(unit_call.patterns) = 3
    /\ unit_call.patterns[2] = RegexMatch(<<BadRegex, Other>>)
    /\ unit_call.patterns[3] = RegexMatch(<<Other, AnyPlus>>)
    /\ unit_call.error_msg = <<BadRegex, Other, Newline>>
    /\ Unwrap(unit_ret).whitelisted = Some(FALSE)

\* ---------------------------------------------------------------------------------
\* Column references of a leaf (query_generator/expr_gen.rs)
\* ---------------------------------------------------------------------------------

\* the most fields a table of the registry has here
MaxFields == 2

\* the types the fields have; the third type a leaf may ask for is no field's type
FieldTypes == { SimpleType("Int64"), SimpleType("Boolean") }

LeafTargetTypes == FieldTypes \cup { SimpleType("Utf8") }

FieldName(table, i) == <<"col", table, i>>

\* the schemas a table can have: up to MaxFields fields of the field types
Schemas(table) ==
    UNION { { [i \in 1..n |-> [name |-> FieldName(table, i), data_type |-> tys[i]]] :
                tys \in [1..n -> FieldTypes] } : n \in 0..MaxFields }

\* the registries: the tables t0 and t1 with any schema, and the view v0, which
\* create_and_register_view registers with LogicalTable::new, without fields
LeafRegistries ==
    { [n \in {TableName(0), TableName(1), ViewName(0)} |->
          IF n = TableName(0) THEN s0 ELSE IF n = TableName(1) THEN s1 ELSE <<>>] :
        s0 \in Schemas(0), s1 \in Schemas(1) }

\* the src_tables of a builder: one or two picks out of the registry, a table picked
\* by two generate_stmt calls of one builder being there twice
LeafSrcTables ==
    LET names == {TableName(0), TableName(1), ViewName(0)}
    IN  { <<a>> : a \in names } \cup { <<a, b>> : a \in names, b \in names }

LeafCalls ==
    { [fn |-> "generate_leaf_expr", registry |-> reg, src_tables |-> src,
       target_type |-> t] :
        reg \in LeafRegistries, src \in LeafSrcTables, t \in LeafTargetTypes }

Column_new(relation, name) == [relation |-> relation, name |-> name]

\* ExprGenerator::tables_to_columns: every field of every table, qualified by the table
RECURSIVE tables_to_columns(_, _)
tables_to_columns(registry, tables) ==
    IF tables = <<>> THEN <<>>
    ELSE LET schema == registry[tables[1]]
         IN  [i \in 1..Len(schema) |-> Column_new(Some(tables[1]), schema[i].name)]
             \o tables_to_columns(registry, Tail(tables))

get_all_columns_of_type_AnyType(registry, src_columns, target_type) ==
    SelectSeq(src_columns,
              LAMBDA column :
                 /\ IsSome(column.relation)
                 /\ Unwrap(column.relation) \in DOMAIN registry
                 /\ \E i \in 1..Len(registry[Unwrap(column.relation)]) :
                       registry[Unwrap(column.relation)][i].name = column.name)

\* ExprGenerator::get_all_columns_of_type: the src_columns whose table is in the
\* registry with a field of the column's name and of the target type (field_with_name
\* gives the first field of the name; the names of a schema are unique)
get_all_columns_of_type(registry, src_columns, target_type) ==
    SelectSeq(src_columns,
              LAMBDA column :
                 /\ IsSome(column.relation)
                 /\ Unwrap(column.relation) \in DOMAIN registry
                 /\ \E i \in 1..Len(registry[Unwrap(column.relation)]) :
                       /\ registry[Unwrap(column.relation)][i].name = column.name
                       /\ registry[Unwrap(column.relation)][i].data_type = target_type)

\* generate_leaf_expr, its first statement: the column drawn out of the matching ones
\* when there is one and the coin says so
pick_column(columns, use_column, index) ==
    IF columns # <<>> /\ use_column THEN Some(columns[index + 1]) ELSE None

InitLeaf ==
    /\ ContextInit({ [rounds |-> 0, queries_per_round |-> 1, max_table_count |-> 1] })
    /\ AuxInit
    /\ arg_error_msg = <<>>
    /\ unit_call \in LeafCalls
    /\ unit_ret = None
    /\ expr_gen = [max_level |-> 0, src_columns |-> {}]
    /\ expr_stack = <<>>
    /\ expr_last = NoReturn
    /\ TaskInit

\* generate_stmt makes the generator with the columns of src_tables, and a leaf of the
\* target type is generated: a matching column, or else the literal
GenerateLeafExpr ==
    /\ unit_call.fn = "generate_leaf_expr"
    /\ unit_ret = None
    /\ LET src_columns == tables_to_columns(unit_call.registry, unit_call.src_tables)
           columns == get_all_columns_of_type(unit_call.registry, src_columns,
                                              unit_call.target_type)
       IN  \E use_column \in BOOLEAN :
           \E index \in 0..(IF columns = <<>> THEN 0 ELSE Len(columns) - 1) :
              LET picked == pick_column(columns, use_column, index)
              IN  unit_ret' =
                    Some([matching |-> Len(columns),
                          leaf |-> IF IsSome(picked)
                                   THEN [expr |-> "Column", column |-> picked]
                                   ELSE [expr |-> generate_leaf_expr(
                                                     expr_gen, unit_call.target_type,
                                                     FALSE).expr,
                                         column |-> None]])
    /\ UNCHANGED <<unit_call, expr_vars>>
    /\ UNCHANGED <<run_vars, counter_vars, whitelist_vars, det_vars, task_vars>>

NextLeaf == GenerateLeafExpr

SpecLeaf == InitLeaf /\ [][NextLeaf]_vars

\* the table of the registry has a field of the name, and the field has the type
HasFieldOfType(registry, table, name, ty) ==
    \E i \in 1..Len(registry[table]) :
        registry[table][i].name = name /\ registry[table][i].data_type = ty

\* C26: every column reference in a generated expression is a table-qualified column of
\* one of the statement's selected source tables whose registered type equals the type
\* requested for the leaf; when no source column has the requested type the leaf is
\* always a literal.
C26_ColumnLeafOfRequestedType ==
    (unit_call.fn = "generate_leaf_expr" /\ unit_ret # None) =>
        LET leaf == Unwrap(unit_ret).leaf
            no_match == \A k \in 1..Len(unit_call.src_tables) :
                           \A i \in 1..Len(unit_call.registry[unit_call.src_tables[k]]) :
                              unit_call.registry[unit_call.src_tables[k]][i].data_type
                                 # unit_call.target_type
        IN  /\ leaf.expr \in {"Column", "Literal"}
            /\ leaf.expr = "Column" =>
                  LET column == Unwrap(leaf.column)
                  IN  /\ IsSome(column.relation)
                      /\ Unwrap(column.relation) \in Range(unit_call.src_tables)
                      /\ HasFieldOfType(unit_call.registry, Unwrap(column.relation),
                                        column.name, unit_call.target_type)
            /\ no_match => leaf.expr = "Literal"

\* a column of the second of two selected tables was returned for a Boolean leaf, the
\* first table having no Boolean column
C26_Witness ==
    /\ unit_call.fn = "generate_leaf_expr"
    /\ unit_ret # None
    /\ unit_call.src_tables = <<TableName(0), TableName(1)>>
    /\ unit_call.target_type = SimpleType("Boolean")
    /\ Unwrap(unit_ret).leaf.expr = "Column"
    /\ Unwrap(unit_ret).leaf.column = Some(Column_new(Some(TableName(1)), FieldName(1, 2)))
    /\ unit_call.registry[TableName(1)][1].data_type = SimpleType("Int64")

\* ---------------------------------------------------------------------------------
\* The counters of FuzzerStats over the run
\* ---------------------------------------------------------------------------------

\* a step in which execute_single_query ran a query: the result it returned is the
\* one appended to the results of the oracle test
QueryExecuted == Len(execution_results') = Len(execution_results) + 1

\* how a step changes the query counters: a step that runs a query counts it once,
\* and counts it as succeeded exactly when its result is Ok; no other step counts
CountersFollowQueries ==
    IF QueryExecuted
    THEN /\ fuzzer_stats'.queries_executed = fuzzer_stats.queries_executed + 1
         /\ fuzzer_stats'.queries_succeeded =
                fuzzer_stats.queries_succeeded
                   + (IF execution_results'[Len(execution_results')].result.ok
                      THEN 1 ELSE 0)
         /\ fuzzer_stats'.queries_slow - fuzzer_stats.queries_slow \in {0, 1}
    ELSE /\ fuzzer_stats'.queries_executed = fuzzer_stats.queries_executed
         /\ fuzzer_stats'.queries_succeeded = fuzzer_stats.queries_succeeded
         /\ fuzzer_stats'.queries_slow = fuzzer_stats.queries_slow

CountersBounded ==
    /\ fuzzer_stats.queries_succeeded <= fuzzer_stats.queries_executed
    /\ fuzzer_stats.queries_slow <= fuzzer_stats.queries_executed
    /\ fuzzer_stats.rounds_completed <= fuzzer_stats.total_rounds

\* C27: in every reachable state queries_succeeded <= queries_executed, queries_slow <=
\* queries_executed and rounds_completed <= total_rounds; each executed query increases
\* queries_executed by exactly 1 and queries_succeeded by 1 only if it succeeded; when
\* run_fuzzer returns, rounds_completed equals the configured number of rounds.
C27_StatsCounters ==
    /\ []CountersBounded
    /\ [][CountersFollowQueries]_vars
    /\ [](pc = "done" =>
            /\ fuzzer_stats.rounds_completed = runner_config.rounds
            /\ fuzzer_stats.total_rounds = runner_config.rounds)

\* run_fuzzer returned after two rounds in which a query succeeded and a query failed
C27_Witness ==
    /\ pc = "done"
    /\ runner_config.rounds = 2
    /\ fuzzer_stats.rounds_completed = 2
    /\ fuzzer_stats.queries_succeeded >= 1
    /\ fuzzer_stats.queries_succeeded < fuzzer_stats.queries_executed

\* ---------------------------------------------------------------------------------
\* Termination of run_fuzzer
\* ---------------------------------------------------------------------------------

\* the driving task is inside display_all_tables with a table to show: it awaits
\* df_ctx.sql and collect of "SELECT * FROM <table> LIMIT 3" directly, no
\* tokio::time::timeout around them
AwaitsDisplayQuery ==
    /\ pc = "generate_dataset"
    /\ table_i = tables_per_round
    /\ registered_tables # {}

\* the steps that are sure to happen: the driving task is scheduled, the table and view
\* creation calls on the engine return, and a generated query either returns or is cut
\* off by the timeout of execute_query_with_timeout.  The queries of
\* display_all_tables are none of these: whether they return is left to the engine.
RunLoopStepSure == RunLoopStep /\ ~AwaitsDisplayQuery

SpecLive == Init /\ [][Next]_vars /\ WF_RunPosition(RunLoopStepSure)

\* the run loop moves as RunLoopFairness says, also in the runs of Spec
RunLoopMovesAlways == [][RunLoopMoves]_vars

\* run_fuzzer returns, unless the driving task stays in display_all_tables forever
ReturnsUnlessDisplayHangs == <>(pc = "done") \/ <>[]AwaitsDisplayQuery

\* when run_fuzzer has returned it has made exactly the configured rounds, and no round
\* makes more oracle tests than queries_per_round
RoundsAndTestsCounted ==
    /\ pc = "done" => round = runner_config.rounds
    /\ attempted.tests <= runner_config.queries_per_round

\* C28: run_fuzzer with R rounds and Q queries per round eventually returns after
\* exactly R rounds and at most Q oracle iterations per round, when every table and view
\* creation call on the engine returns, even when generated queries never complete.
C28_RunFuzzerReturns ==
    /\ <>(pc = "done")
    /\ []RoundsAndTestsCounted

\* ---------------------------------------------------------------------------------
\* The seeds of one round (cli/runner.rs)
\* ---------------------------------------------------------------------------------

\* a u64 is four limbs of 16 bits, least significant first
U64(n) == <<n % LimbBase, n \div LimbBase, 0, 0>>

U64Max == <<LimbMax, LimbMax, LimbMax, LimbMax>>

RECURSIVE AddWithCarry(_, _)
AddWithCarry(limbs, carry) ==
    IF limbs = <<>> THEN <<>>
    ELSE <<(limbs[1] + carry) % LimbBase>>
         \o AddWithCarry(Tail(limbs), (limbs[1] + carry) \div LimbBase)

\* u64::wrapping_add of a small number: the carry out of the highest limb is dropped
wrapping_add(a, k) == AddWithCarry(a, k)

\* (round as u64) * 1000
RoundSeedStride == 1000

\* (round as u64) * 1000 + 100
ViewSeedOffset == 100

\* (round as u64) * 1000 + 200
QuerySeedOffset == 200

\* (i as u64) * 100
TableSeedStride == 100

\* the rounds and the oracle tests per round taken here
MaxSeedRound == 2

MaxSeedQueries == 3

\* the seeds taken: 0, the command line's default, and one so near u64::MAX that the
\* seeds of every round wrap around
BaseSeeds == { U64(0), U64(CliDefaultSeed), [U64Max EXCEPT ![1] = @ - ViewSeedOffset] }

SeedCalls ==
    { [fn |-> "round_seeds", base_seed |-> b, round |-> r, tables_per_round |-> t,
       tables_available |-> a, queries_per_round |-> q] :
        b \in BaseSeeds, r \in 0..MaxSeedRound,
        t \in MinTablesPerRound..MaxTablesPerRound, a \in BOOLEAN,
        q \in 1..MaxSeedQueries }

\* run_fuzzer: the three seeds of a round
dataset_seed(base_seed, r) == wrapping_add(base_seed, r * RoundSeedStride)

view_seed(base_seed, r) == wrapping_add(base_seed, r * RoundSeedStride + ViewSeedOffset)

query_base_seed(base_seed, r) ==
    wrapping_add(base_seed, r * RoundSeedStride + QuerySeedOffset)

\* generate_datasets_for_round: the seed of the DatasetGenerator of table i
table_seed(seed, i) == wrapping_add(seed, i * TableSeedStride)

\* run_fuzzer: the seed of oracle test i
query_seed(base, i) == wrapping_add(base, i)

Handed(to, i, seed) == [to |-> to, i |-> i, seed |-> seed]

InitSeeds ==
    /\ ContextInit({ [rounds |-> 0, queries_per_round |-> 1, max_table_count |-> 1] })
    /\ AuxInit
    /\ arg_error_msg = <<>>
    /\ unit_call \in SeedCalls
    /\ unit_ret = None
    /\ expr_gen = [max_level |-> 0, src_columns |-> {}]
    /\ expr_stack = <<>>
    /\ expr_last = NoReturn
    /\ TaskInit

SeedsUnchanged ==
    /\ UNCHANGED <<unit_call, expr_vars>>
    /\ UNCHANGED <<run_vars, counter_vars, whitelist_vars, det_vars, task_vars>>

\* the body of the round loop begins: generate_datasets_for_round is called
RoundBegins ==
    /\ unit_call.fn = "round_seeds"
    /\ unit_ret = None
    /\ unit_ret' = Some([at |-> "generate_datasets", i |-> 0, handed |-> <<>>])
    /\ SeedsUnchanged

\* DatasetGenerator::new(table_seed, ..) for table i
HandTableSeed ==
    /\ unit_call.fn = "round_seeds"
    /\ unit_ret # None
    /\ LET st == Unwrap(unit_ret)
       IN  /\ st.at = "generate_datasets"
           /\ st.i < unit_call.tables_per_round
           /\ unit_ret' =
                 Some([st EXCEPT
                         !.i = @ + 1,
                         !.handed =
                            Append(@, Handed("DatasetGenerator", st.i,
                                             table_seed(dataset_seed(unit_call.base_seed,
                                                                     unit_call.round),
                                                        st.i)))])
    /\ SeedsUnchanged

\* generate_views_for_round: SelectStatementBuilder::new(seed, ..) when there is a
\* table, nothing otherwise
HandViewSeed ==
    /\ unit_call.fn = "round_seeds"
    /\ unit_ret # None
    /\ LET st == Unwrap(unit_ret)
       IN  /\ st.at = "generate_datasets"
           /\ st.i = unit_call.tables_per_round
           /\ unit_ret' =
                 Some([at |-> "oracle_tests", i |-> 0,
                       handed |->
                          IF unit_call.tables_available
                          THEN Append(st.handed,
                                      Handed("SelectStatementBuilder", 0,
                                             view_seed(unit_call.base_seed,
                                                       unit_call.round)))
                          ELSE st.handed])
    /\ SeedsUnchanged

\* execute_oracle_test(query_seed, ..) for oracle test i
HandQuerySeed ==
    /\ unit_call.fn = "round_seeds"
    /\ unit_ret # None
    /\ LET st == Unwrap(unit_ret)
       IN  /\ st.at = "oracle_tests"
           /\ st.i < unit_call.queries_per_round
           /\ unit_ret' =
                 Some([st EXCEPT
                         !.i = @ + 1,
                         !.handed =
                            Append(@, Handed("Oracle", st.i,
                                             query_seed(query_base_seed(
                                                           unit_call.base_seed,
                                                           unit_call.round),
                                                        st.i)))])
    /\ SeedsUnchanged

NextSeeds == RoundBegins \/ HandTableSeed \/ HandViewSeed \/ HandQuerySeed

SpecSeeds == InitSeeds /\ [][NextSeeds]_vars

\* C29: within one round the seeds handed to the per-table dataset generators, to the
\* view statement builder and to the per-query oracles are pairwise distinct.
C29_RoundSeedsDistinct ==
    (unit_call.fn = "round_seeds" /\ unit_ret # None) =>
        LET handed == Unwrap(unit_ret).handed
        IN  \A j, k \in 1..Len(handed) : j # k => handed[j].seed # handed[k].seed

\* the seeds of the dataset generators of one round are distinct among themselves
TableSeedsDistinct ==
    (unit_call.fn = "round_seeds" /\ unit_ret # None) =>
        LET handed == Unwrap(unit_ret).handed
        IN  \A j, k \in 1..Len(handed) :
               (j # k /\ handed[j].to = handed[k].to) => handed[j].seed # handed[k].seed

\* ---------------------------------------------------------------------------------
\* The registry and the engine session
\* ---------------------------------------------------------------------------------

\* a step of the table loop or of the view loop: one table or one view was attempted
GenerationStep ==
    \/ attempted'.tables = attempted.tables + 1
    \/ attempted'.views = attempted.views + 1

\* the names of the registry are the tables and views of the engine session
RegistryMatchesSession == registered_tables = df_ctx.tables

\* the tables of the registry are in the engine session: what the registry names can
\* be queried
RegistryWithinSession == registered_tables \subseteq df_ctx.tables

\* C30: after every table or view generation step, successful or failed, the set of
\* names in the table registry equals the set of tables and views that exist in the
\* current engine session; a failed view creation leaves both without the view.
C30_RegistryEqualsSession == [][GenerationStep => RegistryMatchesSession']_vars

====
